---- MODULE Spec2Model ----
(***************************************************************************)
(* Streaming buffer and windowed-inference scheduler of whisper-rust-       *)
(* binding: FlutterTranscriber (src/flutter_transcriber.rs), its registry   *)
(* front end FlutterTranscriberApi (src/flutter_api.rs) and                 *)
(* RealTimeTranscriber (src/realtime_transcriber.rs).                       *)
(*                                                                         *)
(* One behaviour exercises one transcriber object.  `usage` says which:    *)
(*   "direct"   threads call FlutterTranscriber's methods themselves,       *)
(*   "api"      threads go through FlutterTranscriberApi (registry mutex),  *)
(*   "realtime" a RealTimeTranscriber with its processing_loop thread.      *)
(* Every mutex-protected critical section of the source is one step; the   *)
(* places where the source releases every lock are the step boundaries.    *)
(* Sample i of the input stream has value i, so a buffer or a window shows *)
(* which part of the stream it holds.                                      *)
(***************************************************************************)
EXTENDS Integers, Sequences, FiniteSets, TLC

VARIABLES
    usage,                    \* which object / entry point this behaviour exercises
    config,                   \* constructor arguments of the transcriber
    audio_buffer,             \* VecDeque<f32>: the buffered samples, oldest first
    last_processed_samples,   \* FlutterTranscriber watermark (samples)
    is_processing,            \* FlutterTranscriber busy flag
    processing_stats,         \* ProcessingStats counters
    temp_files,               \* number of window_*.wav files in temp_dir
    registry,                 \* TRANSCRIBER_INSTANCES mutex: "free", a thread, or "poisoned"
    pc,                       \* per thread: position inside its current call
    last_processed,           \* per poller: local `last_processed` (line 238)
    window_samples,           \* per poller: local `window_samples` (line 276)
    result,                   \* per poller: value of `result` / of the pending return
    ret,                      \* history: what the process_if_ready call that returned last returned
    last_processed_time,      \* RealTimeTranscriber watermark (ticks)
    rt_pc,                    \* processing_loop: position of the loop thread
    current_time,             \* processing_loop local (ticks)
    rt_last_processed,        \* processing_loop local `last_processed` (ticks)
    audio_window,             \* processing_loop local `audio_window`
    total,                    \* history: number of samples appended so far
    cur_window,               \* history: the window extracted last
    shared,                   \* history: samples cur_window shares with the window before it (-1: none before)
    polls,                    \* history: process_if_ready calls begun so far
    fresh,                    \* history: a dispatching poll returned and nothing was appended since it took its window
    quiet,                    \* history, per poller: its call began while `fresh`, nothing appended since
    iter_total,               \* history: `total` when the loop last read current_time
    done_total,               \* history: iter_total of the iteration that last processed a window
    attempts,                 \* history: backend calls (transcribe_file) made so far
    texts,                    \* history: backend calls whose output held a transcription
    instances,                \* TRANSCRIBER_INSTANCES: the HashMap from instance id to FlutterTranscriber
    call,                     \* per client thread: the FlutterTranscriberApi call it is executing
    reply,                    \* what the call that returned last returned
    dirs,                     \* the temp directories that exist on disk
    clock,                    \* SystemTime::now() in milliseconds
    realtime_live,            \* configurations of the RealTimeTranscribers constructed so far
    calls,                    \* history: number of calls begun
    transcribed,              \* text a caller holds as the transcribed one (sequence of characters)
    expected,                 \* text a caller holds as the expected one
    variants,                 \* history: the two texts are one text written in two ways
    edits,                    \* history: how many times the writing of either text was varied
    validation,               \* the ValidationResult validate_transcription returned, if any
    stats_lock,               \* the processing_stats mutex: "free" or the thread holding it
    processing_time,          \* per poller: local `processing_time` (line 303), in ms
    reader,                   \* the thread calling get_stats: position in its call
    snapshot,                 \* the ProcessingStats get_stats returned last
    committed,                \* history: processing_stats as each update_stats left it, oldest first
    buffer_duration,          \* what RealTimeTranscriber::get_buffer_duration returned last (seconds)
    asked_total,              \* history: `total` when get_buffer_duration was called last (-1: never)
    text_validation,          \* what RealTimeTranscriber::validate_text returned, if anything
    sliding_call,             \* arguments of the process_audio_sliding_window call being made
    sw_pc,                    \* process_audio_sliding_window: position in the function
    position,                 \* process_audio_sliding_window local `position` (samples)
    submitted,                \* history: the sample ranges handed to process_audio, in order
    next_instance_id,         \* lib.rs NEXT_INSTANCE_ID
    next_id_lock,             \* holder of the NEXT_INSTANCE_ID mutex, or "free"
    contexts,                 \* lib.rs INSTANCES: the ids that map to a context
    init_pc,                  \* client -> position in whisper_rust_init
    instance_id,              \* client -> the id whisper_rust_init read at line 503
    issued,                   \* history: the ids init_whisper returned, in order
    freed,                    \* history: the ids free_whisper freed
    answer,                   \* the last free_whisper / is_valid_model call and its result
    processing_handle,        \* RealTimeTranscriber.processing_handle: 0 (None) or the loop it joins
    loop_at,                  \* processing_loop thread -> where it is ("unborn" before its spawn)
    loop_time,                \* processing_loop thread -> its local current_time
    start_reply,              \* what the last start_processing returned
    dispatched_by,            \* history: the loop that processed the last window, 0 if none
    holder,                   \* FlutterTranscriber mutex -> the thread holding it, or "free"
    lock_call,                \* thread -> the function it is calling, "none" between calls
    api_exists                \* whether the transcriber can be reached (is in the registry)

vars == << usage, config, audio_buffer, last_processed_samples, is_processing,
           processing_stats, temp_files, registry, pc, last_processed,
           window_samples, result, ret, last_processed_time, rt_pc, current_time,
           rt_last_processed, audio_window, total, cur_window, shared, polls,
           fresh, quiet, iter_total, done_total, attempts, texts, instances, call,
           reply, dirs, clock, realtime_live, calls, transcribed, expected, variants,
           edits, validation, stats_lock, processing_time, reader, snapshot,
           committed, buffer_duration, asked_total, text_validation, sliding_call,
           sw_pc, position, submitted, next_instance_id, next_id_lock, contexts,
           init_pc, instance_id, issued, freed, answer, processing_handle, loop_at,
           loop_time, start_reply, dispatched_by, holder, lock_call, api_exists >>

\* What a caller of validate_transcription holds.
ValidationVars == << transcribed, expected, variants, edits, validation >>

\* The processing_stats mutex, the inside of update_stats, and the caller of
\* get_stats.
StatsVars == << stats_lock, processing_time, reader, snapshot, committed >>

\* What the callers of RealTimeTranscriber's get_buffer_duration and
\* validate_text hold.
RealtimeCallVars == << buffer_duration, asked_total, text_validation >>

\* A call of WhisperContext::process_audio_sliding_window.
SlidingVars == << sliding_call, sw_pc, position, submitted >>

\* The callers of the helpers of FlutterTranscriber.
CoreVars == << ValidationVars, StatsVars >>

\* The instance table of src/lib.rs and its callers.
InstanceVars ==
    << next_instance_id, next_id_lock, contexts, init_pc, instance_id, issued, freed,
       answer >>

\* The processing threads of one RealTimeTranscriber over its starts and stops.
LoopsVars == << processing_handle, loop_at, loop_time, start_reply, dispatched_by >>

\* The mutexes of one FlutterTranscriber and the calls made on it.
LockVars == << holder, lock_call, api_exists >>

\* The state of the parts of the library beside the two transcribers.
ExtraVars == << RealtimeCallVars, SlidingVars, InstanceVars, LoopsVars, LockVars >>

\* What the windowing steps and the registry leave alone.
CallerVars == << ValidationVars, StatsVars, ExtraVars >>

\* The state of the registry and of its clients.
RegistryVars == << instances, call, reply, dirs, clock, realtime_live, calls >>

(***************************************************************************)
(* Bounds of the model.                                                    *)
(***************************************************************************)
\* Largest chunk (in samples) one add_audio_chunk call appends.
MaxChunk == 2
\* No chunk is appended once this many samples have been appended.
MaxTotal == 7
\* No FlutterTranscriberApi call is begun once this many have been.
MaxCalls == 5
\* The last millisecond a temp directory is named after.
MaxClock == 2
\* No process_if_ready call begins once this many have begun.
MaxPolls == 2

Pollers == {"p1", "p2"}
Producer == "producer"
Threads == Pollers \cup {Producer}

(***************************************************************************)
(* Configurations.  FlutterTranscriber::new takes sample_rate (Hz) and     *)
(* durations in milliseconds; each of these passes its parameter checks    *)
(* (overlap < window, chunk_size_ms <= window / 4).                        *)
(***************************************************************************)
FlutterConfigs ==
    { [sample_rate |-> 1, window_duration_ms |-> 1000, overlap_duration_ms |-> 0,
       chunk_size_ms |-> 250],
      [sample_rate |-> 1, window_duration_ms |-> 3000, overlap_duration_ms |-> 1000,
       chunk_size_ms |-> 50] }

\* FlutterTranscriber::new: the two parameter checks.
NewAccepts(c) ==
    /\ ~(c.overlap_duration_ms >= c.window_duration_ms)
    /\ ~(c.chunk_size_ms > c.window_duration_ms \div 4)

\* max_buffer_duration_ms = window_duration_ms * 5
max_buffer_duration_ms == config.window_duration_ms * 5

\* (sample_rate as u64 * max_buffer_duration_ms as u64 / 1000) as usize
max_samples == (config.sample_rate * max_buffer_duration_ms) \div 1000

\* required_samples / window_size
window_size == (config.sample_rate * config.window_duration_ms) \div 1000

\* hop_samples
hop_samples ==
    (config.sample_rate * (config.window_duration_ms - config.overlap_duration_ms)) \div 1000

(***************************************************************************)
(* VecDeque operations as the source uses them.                            *)
(***************************************************************************)
\* for &sample in audio_data { buffer.push_back(sample) }: the chunk holds the
\* next n samples of the stream, sample i having value i.
RECURSIVE PushBackAll(_, _, _)
PushBackAll(buffer, first, n) ==
    IF n = 0 THEN buffer
    ELSE PushBackAll(Append(buffer, first), first + 1, n - 1)

\* Faulty variant of PopFrontWhileOver: one pop_front in place of the loop.
PopFrontOnce(buffer, max) ==
    IF Len(buffer) > max THEN Tail(buffer) ELSE buffer

\* Faulty variant of PopFrontWhileOver: the excess is cut from the back.
DropNewestWhileOver(buffer, max) ==
    IF Len(buffer) > max THEN SubSeq(buffer, 1, max) ELSE buffer

\* while buffer.len() > max { buffer.pop_front(); }
RECURSIVE PopFrontWhileOver(_, _)
PopFrontWhileOver(buffer, max) ==
    IF Len(buffer) > max THEN PopFrontWhileOver(Tail(buffer), max)
    ELSE buffer

\* buffer.iter().skip(start_idx).cloned().collect()
SkipCollect(buffer, start_idx) ==
    [i \in 1..(Len(buffer) - start_idx) |-> buffer[start_idx + i]]

\* Extract latest window: start_idx = buffer.len() - window_size
ExtractLatest(buffer, size) == SkipCollect(buffer, Len(buffer) - size)

NoWindow == << >>

\* The number of trailing samples of window a that are, sample for sample, the
\* leading samples of window b (the longest such run).
SharedSamples(a, b) ==
    LET n == IF Len(a) < Len(b) THEN Len(a) ELSE Len(b)
        fits == {k \in 0..n : \A i \in 1..k : a[Len(a) - k + i] = b[i]}
    IN  CHOOSE k \in fits : \A j \in fits : j <= k

\* History of extracted windows, kept at each extraction of window w.
NoteWindow(w) ==
    /\ shared' = IF cur_window = NoWindow THEN -1 ELSE SharedSamples(cur_window, w)
    /\ cur_window' = w

\* Window w ends at the newest sample of the stream.
NothingAppendedSince(w) == w[Len(w)] + 1 = total

InferencePcs == {"extract", "write_wav", "transcribe", "update_stats", "update_last"}
InFlight(t) == pc[t] \in InferencePcs

\* What the caller sees of a call's outcome.
Visible(r) ==
    CASE r = "Some" -> "Some"
      [] r \in {"ErrCreate", "ErrBackend"} -> "Err"
      [] OTHER -> "None"

\* The call handed its window to the external transcribe_file process.
BackendInvoked(t) ==
    \/ pc[t] \in {"update_stats", "update_last"}
    \/ pc[t] = "clear" /\ result[t] \in {"Some", "NoneSilent", "ErrBackend"}

\* The call of t returns r: its locals go out of scope and
\* FlutterTranscriberApi drops its registry guard.
Return(t, r) ==
    /\ pc' = [pc EXCEPT ![t] = "idle"]
    /\ ret' = Visible(r)
    /\ registry' = IF registry = t THEN "free" ELSE registry
    /\ quiet' = [quiet EXCEPT ![t] = FALSE]
    /\ last_processed' = [last_processed EXCEPT ![t] = 0]
    /\ window_samples' = [window_samples EXCEPT ![t] = NoWindow]
    /\ result' = [result EXCEPT ![t] = "unset"]

\* The call of t moves on to position p.
Goto(t, p) ==
    /\ pc' = [pc EXCEPT ![t] = p]
    /\ UNCHANGED << ret, registry >>

\* The thread of t unwinds from a panic; a registry guard it holds poisons the mutex.
Panic(t) ==
    /\ pc' = [pc EXCEPT ![t] = "panicked"]
    /\ registry' = IF registry = t THEN "poisoned" ELSE registry
    /\ UNCHANGED ret

RealtimeVars ==
    << last_processed_time, rt_pc, current_time, rt_last_processed, audio_window,
       iter_total, done_total >>

SharedFlutterVars ==
    << audio_buffer, last_processed_samples, is_processing, processing_stats,
       temp_files, total >>

(***************************************************************************)
(* FlutterTranscriber::add_audio_chunk, lines 175-208: one critical        *)
(* section of audio_buffer (the stats lock is taken inside it).            *)
(***************************************************************************)
\* Lines 192-195: if overflow_count > 0 { stats.buffer_overflows += 1 }
CountOverflow(stats, overflow_count) ==
    IF overflow_count > 0
    THEN [stats EXCEPT !.buffer_overflows = @ + 1]
    ELSE stats

AddAudioChunkBody(n) ==
    LET pushed == PushBackAll(audio_buffer, total, n)
        kept == PopFrontWhileOver(pushed, max_samples)
        overflow_count == Len(pushed) - Len(kept)
    IN  /\ audio_buffer' = kept
        /\ processing_stats' = CountOverflow(processing_stats, overflow_count)
        /\ total' = total + n
        /\ fresh' = FALSE
        /\ quiet' = [t \in Pollers |-> FALSE]
        /\ UNCHANGED << usage, config, attempts, texts, RegistryVars, CallerVars, last_processed_samples, is_processing, temp_files,
                        last_processed, window_samples, result, ret, cur_window,
                        shared, polls >>
        /\ UNCHANGED RealtimeVars

AddAudioChunk ==
    /\ usage = "direct"
    /\ pc[Producer] = "idle"
    /\ \E n \in 1..MaxChunk :
          /\ total + n <= MaxTotal
          /\ AddAudioChunkBody(n)
    /\ UNCHANGED << pc, registry >>

(***************************************************************************)
(* FlutterTranscriber::process_if_ready, lines 211-269.                    *)
(***************************************************************************)
\* Lines 213-219: the busy check.
CheckBusy(t) ==
    /\ \/ usage = "direct" /\ pc[t] = "idle"
       \/ usage = "api" /\ pc[t] = "api_locked"
    /\ polls < MaxPolls
    /\ polls' = polls + 1
    /\ IF is_processing
       THEN Return(t, "NoneBusy")
       ELSE /\ Goto(t, "check_data")
            /\ quiet' = [quiet EXCEPT ![t] = fresh]
            /\ UNCHANGED << last_processed, window_samples, result >>
    /\ UNCHANGED << usage, config, attempts, texts, RegistryVars, CallerVars, cur_window, shared, fresh >>
    /\ UNCHANGED SharedFlutterVars
    /\ UNCHANGED RealtimeVars

\* Lines 221-234: enough data for one window?
CheckData(t) ==
    /\ pc[t] = "check_data"
    /\ LET current_samples == Len(audio_buffer)
           required_samples == window_size
       IN  IF current_samples >= required_samples
           THEN /\ Goto(t, "check_hop")
                /\ UNCHANGED << quiet, last_processed, window_samples, result >>
           ELSE Return(t, "NoneNoData")
    /\ UNCHANGED << usage, config, attempts, texts, RegistryVars, CallerVars, cur_window, shared, polls, fresh >>
    /\ UNCHANGED SharedFlutterVars
    /\ UNCHANGED RealtimeVars

\* Line 238: let last_processed = *self.last_processed_samples.lock().unwrap();
ReadLastProcessed(t) ==
    /\ pc[t] = "check_hop"
    /\ last_processed' = [last_processed EXCEPT ![t] = last_processed_samples]
    /\ Goto(t, "check_hop_len")
    /\ UNCHANGED << usage, config, attempts, texts, RegistryVars, CallerVars, cur_window, shared, polls, fresh, quiet,
                    window_samples, result >>
    /\ UNCHANGED SharedFlutterVars
    /\ UNCHANGED RealtimeVars

\* Faulty variants of ShouldProcess: the hop left out; the boundary excluded.
ShouldProcessNoHop(current_samples, last) == current_samples >= last
ShouldProcessStrict(current_samples, last) == current_samples > last + hop_samples

\* Line 246: current_samples >= last_processed + hop_samples
ShouldProcess(current_samples, last) == current_samples >= last + hop_samples

\* Lines 239-251: read the buffer length and decide.
CheckHop(t) ==
    /\ pc[t] = "check_hop_len"
    /\ IF ShouldProcess(Len(audio_buffer), last_processed[t])
       THEN /\ Goto(t, "mark")
            /\ UNCHANGED << quiet, last_processed, window_samples, result >>
       ELSE Return(t, "NoneNoHop")
    /\ UNCHANGED << usage, config, attempts, texts, RegistryVars, CallerVars, cur_window, shared, polls, fresh >>
    /\ UNCHANGED SharedFlutterVars
    /\ UNCHANGED RealtimeVars

\* Lines 253-257: *is_processing = true
MarkProcessing(t) ==
    /\ pc[t] = "mark"
    /\ is_processing' = TRUE
    /\ Goto(t, "extract")
    /\ UNCHANGED << usage, config, attempts, texts, RegistryVars, CallerVars, cur_window, shared, polls, fresh, quiet,
                    last_processed, window_samples, result >>
    /\ UNCHANGED << audio_buffer, last_processed_samples, processing_stats,
                    temp_files, total >>
    /\ UNCHANGED RealtimeVars

(***************************************************************************)
(* FlutterTranscriber::process_current_window, lines 272-320.              *)
(***************************************************************************)
\* Lines 275-287: copy the latest window out of the buffer.
ExtractWindow(t) ==
    /\ pc[t] = "extract"
    /\ IF Len(audio_buffer) < window_size
       THEN /\ result' = [result EXCEPT ![t] = "NoneShort"]
            /\ Goto(t, "clear")
            /\ UNCHANGED << window_samples, cur_window, shared >>
       ELSE LET w == ExtractLatest(audio_buffer, window_size)
            IN  /\ window_samples' = [window_samples EXCEPT ![t] = w]
                /\ NoteWindow(w)
                /\ Goto(t, "write_wav")
                /\ UNCHANGED result
    /\ UNCHANGED << usage, config, attempts, texts, RegistryVars, CallerVars, fresh, quiet, last_processed, polls >>
    /\ UNCHANGED SharedFlutterVars
    /\ UNCHANGED RealtimeVars

\* Lines 289-294 and write_wav_file, lines 323-362: File::create may fail (Err);
\* every write_all is unwrapped, so a failing write panics with the file created.
WriteWavFile(t) ==
    /\ pc[t] = "write_wav"
    /\ \/ /\ result' = [result EXCEPT ![t] = "ErrCreate"]
          /\ Goto(t, "clear")
          /\ UNCHANGED temp_files
       \/ /\ temp_files' = temp_files + 1
          /\ Goto(t, "transcribe")
          /\ UNCHANGED result
       \/ /\ temp_files' = temp_files + 1
          /\ Panic(t)
          /\ UNCHANGED result
    /\ UNCHANGED << usage, config, attempts, texts, RegistryVars, CallerVars, cur_window, shared, polls, fresh, quiet,
                    last_processed, window_samples >>
    /\ UNCHANGED << audio_buffer, last_processed_samples, is_processing,
                    processing_stats, total >>
    /\ UNCHANGED RealtimeVars

\* A text is the sequence of the code points of its characters.  The white
\* space of the model is U+0020.
Whitespace == {32}

\* str::trim
RECURSIVE TrimStart(_)
TrimStart(text) ==
    IF text # << >> /\ Head(text) \in Whitespace THEN TrimStart(Tail(text)) ELSE text

RECURSIVE TrimEnd(_)
TrimEnd(text) ==
    IF text # << >> /\ text[Len(text)] \in Whitespace
    THEN TrimEnd(SubSeq(text, 1, Len(text) - 1)) ELSE text

Trim(text) == TrimEnd(TrimStart(text))

\* What the transcribe_file process prints on a successful exit, as
\* parse_transcription_output reads it: the number of marker lines (the
\* example program prints one before and one after the transcript) and the
\* transcript printed after the first of them.
BackendOutputs ==
    [markers : 0..2, transcription : {<< >>, << 32 >>, << 97 >>, << 32, 97, 32 >>}]

\* parse_transcription_output, lines 382-418: Some when both markers are
\* found and the trimmed text between them is not empty, None otherwise.
ParseTranscriptionOutput(output) ==
    IF output.markers >= 1
    THEN IF output.markers >= 2
         THEN IF Trim(output.transcription) # << >> THEN "Some" ELSE "NoneSilent"
         ELSE "NoneSilent"
    ELSE "NoneSilent"

\* The output holds a transcript with something other than white space in it.
ContainsText(output) ==
    /\ output.markers = 2
    /\ \E i \in 1..Len(output.transcription) : output.transcription[i] \notin Whitespace

\* Line 297 and transcribe_file, lines 365-379, with parse_transcription_output,
\* lines 382-418: the external process fails to start or exits non-zero (Err,
\* returned by `?` before any of lines 299-311 runs), or its output holds a
\* non-empty transcription (Some) or none (None).
TranscribeFile(t) ==
    /\ pc[t] = "transcribe"
    /\ \/ /\ result' = [result EXCEPT ![t] = "ErrBackend"]
          /\ Goto(t, "clear")
          /\ UNCHANGED texts
       \/ \E output \in BackendOutputs :
             /\ result' = [result EXCEPT ![t] = ParseTranscriptionOutput(output)]
             /\ Goto(t, "update_stats")
             /\ texts' = IF ContainsText(output) THEN texts + 1 ELSE texts
    /\ attempts' = attempts + 1
    /\ UNCHANGED << usage, config, RegistryVars, CallerVars, cur_window, shared, polls, fresh, quiet,
                    last_processed, window_samples >>
    /\ UNCHANGED SharedFlutterVars
    /\ UNCHANGED RealtimeVars

\* Faulty variant of UpdateCounters: every recorded attempt counted as a success.
UpdateCountersAsSuccess(stats, success) ==
    [stats EXCEPT !.total_processed_windows = @ + 1,
                  !.successful_transcriptions = @ + 1]

\* update_stats, lines 547-553: the two counters.
UpdateCounters(stats, success) ==
    [stats EXCEPT !.total_processed_windows = @ + 1,
                  !.successful_transcriptions = IF success THEN @ + 1 ELSE @]

\* Lines 299-304: remove the window file, then update_stats under the stats lock.
UpdateStats(t) ==
    /\ pc[t] = "update_stats"
    /\ temp_files' = temp_files - 1
    /\ processing_stats' = UpdateCounters(processing_stats, result[t] = "Some")
    /\ Goto(t, "update_last")
    /\ UNCHANGED << usage, config, attempts, texts, RegistryVars, CallerVars, cur_window, shared, polls, fresh, quiet,
                    last_processed, window_samples, result >>
    /\ UNCHANGED << audio_buffer, last_processed_samples, is_processing, total >>
    /\ UNCHANGED RealtimeVars

\* The overlap in samples: sample_rate * overlap_duration_ms / 1000.
overlap_samples == (config.sample_rate * config.overlap_duration_ms) \div 1000

\* Faulty variant of NewWatermark: the overlap taken off the buffer length.
WatermarkLessOverlap(buffer) == Len(buffer) - overlap_samples

\* Faulty variant of NewWatermark: the watermark starts over once the buffer
\* is full.
WatermarkRebased(buffer) == IF Len(buffer) = max_samples THEN 0 ELSE Len(buffer)

\* Line 310: *last_processed = buffer.len()
NewWatermark(buffer) == Len(buffer)

\* Lines 306-311: the watermark, under its own lock and the buffer's.
UpdateLastProcessed(t) ==
    /\ pc[t] = "update_last"
    /\ last_processed_samples' = NewWatermark(audio_buffer)
    /\ Goto(t, "clear")
    /\ UNCHANGED << usage, config, attempts, texts, RegistryVars, CallerVars, cur_window, shared, polls, fresh, quiet,
                    last_processed, window_samples, result >>
    /\ UNCHANGED << audio_buffer, is_processing, processing_stats, temp_files, total >>
    /\ UNCHANGED RealtimeVars

\* Faulty variant of FlagAfterWindow: the flag left set when the window failed.
FlagKeptOnError(r) == Visible(r) = "Err"

\* Line 265: *is_processing = false, whatever `result` holds.
FlagAfterWindow(r) == FALSE

\* Lines 262-268: clear the flag and return `result`.
ClearProcessing(t) ==
    /\ pc[t] = "clear"
    /\ is_processing' = FlagAfterWindow(result[t])
    /\ fresh' = IF BackendInvoked(t) /\ NothingAppendedSince(window_samples[t])
                THEN TRUE ELSE fresh
    /\ Return(t, result[t])
    /\ UNCHANGED << usage, config, attempts, texts, RegistryVars, CallerVars, cur_window, shared, polls >>
    /\ UNCHANGED << audio_buffer, last_processed_samples, processing_stats,
                    temp_files, total >>
    /\ UNCHANGED RealtimeVars

(***************************************************************************)
(* FlutterTranscriberApi, src/flutter_api.rs: every entry point holds the  *)
(* TRANSCRIBER_INSTANCES guard from its first line to its return.          *)
(***************************************************************************)
\* A thread calls FlutterTranscriberApi::process_if_ready (line 122).
ApiCallProcess(t) ==
    /\ usage = "api"
    /\ pc[t] = "idle"
    /\ Goto(t, "api_wait")
    /\ UNCHANGED << usage, config, attempts, texts, RegistryVars, CallerVars, cur_window, shared, polls, fresh, quiet,
                    last_processed, window_samples, result >>
    /\ UNCHANGED SharedFlutterVars
    /\ UNCHANGED RealtimeVars

\* Line 123: TRANSCRIBER_INSTANCES.lock().unwrap() -- blocks while another
\* thread holds the guard, panics when the mutex is poisoned.
ApiLockProcess(t) ==
    /\ pc[t] = "api_wait"
    /\ \/ /\ registry = "free"
          /\ registry' = t
          /\ pc' = [pc EXCEPT ![t] = "api_locked"]
       \/ /\ registry = "poisoned"
          /\ pc' = [pc EXCEPT ![t] = "panicked"]
          /\ UNCHANGED registry
    /\ UNCHANGED << usage, config, attempts, texts, RegistryVars, CallerVars, cur_window, shared, polls, fresh, quiet,
                    last_processed, window_samples, result, ret >>
    /\ UNCHANGED SharedFlutterVars
    /\ UNCHANGED RealtimeVars

\* A thread calls FlutterTranscriberApi::add_audio_chunk (line 100).
ApiCallAdd ==
    /\ usage = "api"
    /\ pc[Producer] = "idle"
    /\ total < MaxTotal
    /\ pc' = [pc EXCEPT ![Producer] = "api_wait"]
    /\ UNCHANGED << usage, config, attempts, texts, RegistryVars, CallerVars, cur_window, shared, polls, fresh, quiet,
                    last_processed, window_samples, result, ret, registry >>
    /\ UNCHANGED SharedFlutterVars
    /\ UNCHANGED RealtimeVars

\* Lines 104-118: take the guard, run add_audio_chunk, drop the guard.
ApiRunAdd ==
    /\ pc[Producer] = "api_wait"
    /\ \/ /\ registry = "free"
          /\ \E n \in 1..MaxChunk :
                /\ total + n <= MaxTotal
                /\ AddAudioChunkBody(n)
          /\ pc' = [pc EXCEPT ![Producer] = "idle"]
       \/ /\ registry = "poisoned"
          /\ pc' = [pc EXCEPT ![Producer] = "panicked"]
          /\ UNCHANGED << usage, config, attempts, texts, RegistryVars, CallerVars, cur_window, shared, polls, fresh, quiet,
                          last_processed, window_samples, result, ret >>
          /\ UNCHANGED SharedFlutterVars
          /\ UNCHANGED RealtimeVars
    /\ UNCHANGED registry

(***************************************************************************)
(* RealTimeTranscriber, src/realtime_transcriber.rs.  Its durations are    *)
(* f64 seconds; the model holds them in ticks of 1/TicksPerSecond second   *)
(* and takes configurations whose times are whole ticks, for which the     *)
(* f64 arithmetic of the source is exact.  RealTimeTranscriber::new checks *)
(* none of its arguments.                                                  *)
(***************************************************************************)
TicksPerSecond == 2

RealtimeConfigs ==
    { [sample_rate |-> 1, window_duration |-> 4, overlap_duration |-> 1,
       max_buffer_duration |-> 10],
      [sample_rate |-> 2, window_duration |-> 2, overlap_duration |-> 1,
       max_buffer_duration |-> 6],
      [sample_rate |-> 2, window_duration |-> 4, overlap_duration |-> 1,
       max_buffer_duration |-> 10] }

\* (x as f64 * seconds) as usize, for a non-negative product
SamplesIn(rate, ticks) == (rate * ticks) \div TicksPerSecond

\* line 104: max_samples
loop_max_samples == SamplesIn(config.sample_rate, config.max_buffer_duration)

\* line 186: hop_duration
hop_duration == config.window_duration - config.overlap_duration

\* line 187: window_samples
loop_window_samples == SamplesIn(config.sample_rate, config.window_duration)

\* line 198: buffer_guard.len() as f64 / sample_rate as f64
BufferTime(len) == (len * TicksPerSecond) \div config.sample_rate

FlutterLocals == << last_processed, window_samples, result, ret, pc, registry >>

\* RealTimeTranscriber::add_audio_chunk, lines 95-110.
RtAddAudioChunk ==
    /\ usage = "realtime"
    /\ \E n \in 1..MaxChunk :
          /\ total + n <= MaxTotal
          /\ audio_buffer' =
                PopFrontWhileOver(PushBackAll(audio_buffer, total, n), loop_max_samples)
          /\ total' = total + n
    /\ UNCHANGED << usage, config, attempts, texts, RegistryVars, CallerVars, last_processed_samples, is_processing,
                    processing_stats, temp_files, cur_window, shared, polls, fresh, quiet >>
    /\ UNCHANGED FlutterLocals
    /\ UNCHANGED RealtimeVars

\* start_processing, lines 119-175: refused while a handle is held, else the
\* processing_loop thread is spawned.
StartProcessing ==
    /\ usage = "realtime"
    /\ rt_pc = "not_started"
    /\ rt_pc' = "read_time"
    /\ UNCHANGED << usage, config, attempts, texts, RegistryVars, CallerVars, cur_window, shared, polls, fresh, quiet,
                    last_processed_time, current_time, rt_last_processed, audio_window,
                    iter_total, done_total >>
    /\ UNCHANGED SharedFlutterVars
    /\ UNCHANGED FlutterLocals

\* Lines 196-199: current_time, under the buffer lock.
LoopReadTime ==
    /\ rt_pc = "read_time"
    /\ current_time' = BufferTime(Len(audio_buffer))
    /\ iter_total' = total
    /\ rt_pc' = "read_last"
    /\ UNCHANGED << usage, config, attempts, texts, RegistryVars, CallerVars, cur_window, shared, polls, fresh, quiet,
                    last_processed_time, rt_last_processed, audio_window, done_total >>
    /\ UNCHANGED SharedFlutterVars
    /\ UNCHANGED FlutterLocals

\* Line 207: current_time - last_processed >= hop_duration && current_time >= window_duration
WindowDue(now, last) ==
    /\ now - last >= hop_duration
    /\ now >= config.window_duration

\* Lines 201-207: read the watermark under its lock and test; a window that is
\* not due leads to the sleep of line 257 and the next iteration.
LoopReadLast ==
    /\ rt_pc = "read_last"
    /\ rt_last_processed' = last_processed_time
    /\ rt_pc' = IF WindowDue(current_time, last_processed_time)
                THEN "extract" ELSE "read_time"
    /\ UNCHANGED << usage, config, attempts, texts, RegistryVars, CallerVars, cur_window, shared, polls, fresh, quiet,
                    last_processed_time, current_time, audio_window, iter_total,
                    done_total >>
    /\ UNCHANGED SharedFlutterVars
    /\ UNCHANGED FlutterLocals

\* Lines 208-217: the latest window under the buffer lock, or `continue`.
LoopExtract ==
    /\ rt_pc = "extract"
    /\ IF Len(audio_buffer) >= loop_window_samples
       THEN LET w == ExtractLatest(audio_buffer, loop_window_samples)
            IN  /\ audio_window' = w
                /\ NoteWindow(w)
                /\ rt_pc' = "process"
       ELSE /\ rt_pc' = "read_time"
            /\ UNCHANGED << audio_window, cur_window, shared >>
    /\ UNCHANGED << usage, config, attempts, texts, RegistryVars, CallerVars, fresh, quiet, polls, last_processed_time, current_time,
                    rt_last_processed, iter_total, done_total >>
    /\ UNCHANGED SharedFlutterVars
    /\ UNCHANGED FlutterLocals

\* Line 252: *last_guard = current_time - overlap_duration
NewLastProcessedTime(now) == now - config.overlap_duration

\* Lines 224-258: process_audio (text, silence and failure all fall through to
\* line 249), the watermark under its lock, the sleep.
LoopProcess ==
    /\ rt_pc = "process"
    /\ last_processed_time' = NewLastProcessedTime(current_time)
    /\ done_total' = iter_total
    /\ audio_window' = NoWindow
    /\ rt_pc' = "read_time"
    /\ UNCHANGED << usage, config, attempts, texts, RegistryVars, CallerVars, cur_window, shared, polls, fresh, quiet,
                    current_time, rt_last_processed, iter_total >>
    /\ UNCHANGED SharedFlutterVars
    /\ UNCHANGED FlutterLocals

(***************************************************************************)
(* Specification.                                                          *)
(***************************************************************************)
\* The client threads of FlutterTranscriberApi, and what they hold between calls.
Clients == Pollers

NoConfig == [sample_rate |-> 0, window_duration_ms |-> 0, overlap_duration_ms |-> 0,
             chunk_size_ms |-> 0]

\* A call: its entry point and id and, for create_transcriber between new and
\* insert, the configuration and temp directory of the transcriber it built.
NoCall == [op |-> "none", id |-> "none", config |-> NoConfig, temp_dir |-> 0]

NoReply == [op |-> "none", id |-> "none", status |-> "none", error |-> "none",
            ids |-> {}]

\* The registry static, lines 7-8: an empty map behind a free mutex.
InitRegistry ==
    /\ instances = << >>
    /\ call = [t \in Clients |-> NoCall]
    /\ reply = NoReply
    /\ dirs = {}
    /\ clock = 1
    /\ realtime_live = {}
    /\ calls = 0

NoStats ==
    [total_processed_windows |-> 0, successful_transcriptions |-> 0,
     average_processing_time_ms |-> [num |-> 0, den |-> 1],
     real_time_factor |-> [num |-> 0, den |-> 1],
     buffer_overflows |-> 0]

\* No ValidationResult yet.
NoValidation ==
    [transcribed_word |-> << >>, expected_word |-> << >>, is_match |-> FALSE,
     similarity_score |-> [num |-> 0, den |-> 1],
     suggestion |-> [some |-> FALSE, text |-> << >>], validation_type |-> "none"]

\* No realtime_transcriber.rs ValidationResult yet.
NoTextValidation ==
    [original_word |-> << >>, expected_word |-> << >>, is_match |-> FALSE,
     confidence |-> -1, suggestion |-> [some |-> FALSE, text |-> << >>]]

\* No caller has a text to validate.
InitNoTexts ==
    /\ transcribed = << >>
    /\ expected = << >>
    /\ variants = FALSE
    /\ edits = 0
    /\ validation = NoValidation

\* processing_stats is unlocked and nobody has read it.
InitStatsIdle ==
    /\ stats_lock = "free"
    /\ processing_time = [t \in Pollers |-> 0]
    /\ reader = "idle"
    /\ snapshot = NoStats
    /\ committed = << NoStats >>

\* Neither helper of RealTimeTranscriber has been called.
InitRealtimeCallsIdle ==
    /\ buffer_duration = [num |-> 0, den |-> 1]
    /\ asked_total = -1
    /\ text_validation = NoTextValidation

\* No call of process_audio_sliding_window.
NoSlidingCall ==
    [loaded |-> FALSE, audio_len |-> 0, window_size_sec |-> 0, step_size_sec |-> 0,
     sample_rate |-> 0]

InitSlidingIdle ==
    /\ sliding_call = NoSlidingCall
    /\ sw_pc = "idle"
    /\ position = 0
    /\ submitted = << >>

\* No free_whisper or is_valid_model call yet.
NoAnswer == [op |-> "none", id |-> -1, result |-> FALSE, freed_before |-> FALSE]

\* lib.rs lines 55-58: an empty table, the next id 0.
InitInstances ==
    /\ next_instance_id = 0
    /\ next_id_lock = "free"
    /\ contexts = {}
    /\ init_pc = [t \in Pollers |-> "idle"]
    /\ instance_id = [t \in Pollers |-> -1]
    /\ issued = << >>
    /\ freed = {}
    /\ answer = NoAnswer

\* Most processing_loop threads one RealTimeTranscriber spawns.
MaxStarts == 2

LoopIds == 1..MaxStarts

\* realtime_transcriber.rs line 85: processing_handle: None; no thread yet.
InitLoops ==
    /\ processing_handle = 0
    /\ loop_at = [l \in LoopIds |-> "unborn"]
    /\ loop_time = [l \in LoopIds |-> 0]
    /\ start_reply = "none"
    /\ dispatched_by = 0

\* flutter_transcriber.rs lines 36-40: the four mutexes of a FlutterTranscriber.
TranscriberLocks ==
    {"audio_buffer", "last_processed_samples", "is_processing", "processing_stats"}

\* Lines 163-170: all mutexes free, nobody calling.
InitLocks ==
    /\ holder = [l \in TranscriberLocks |-> "free"]
    /\ lock_call = [t \in Pollers \cup {Producer} |-> "none"]
    /\ api_exists = FALSE

InitExtras ==
    /\ InitRealtimeCallsIdle
    /\ InitSlidingIdle
    /\ InitInstances
    /\ InitLoops
    /\ InitLocks

InitCallers ==
    /\ InitNoTexts
    /\ InitStatsIdle
    /\ InitExtras

InitTranscriber ==
    /\ audio_buffer = << >>
    /\ last_processed_samples = 0
    /\ is_processing = FALSE
    /\ processing_stats = NoStats
    /\ temp_files = 0
    /\ registry = "free"
    /\ pc = [t \in Threads |-> "idle"]
    /\ last_processed = [t \in Pollers |-> 0]
    /\ window_samples = [t \in Pollers |-> NoWindow]
    /\ result = [t \in Pollers |-> "unset"]
    /\ ret = "unset"
    /\ last_processed_time = 0
    /\ rt_pc = "not_started"
    /\ current_time = 0
    /\ rt_last_processed = 0
    /\ audio_window = NoWindow
    /\ total = 0
    /\ cur_window = NoWindow
    /\ shared = -1
    /\ polls = 0
    /\ fresh = FALSE
    /\ quiet = [t \in Pollers |-> FALSE]
    /\ iter_total = 0
    /\ done_total = -1
    /\ attempts = 0
    /\ texts = 0
    /\ InitRegistry

InitCommon ==
    /\ InitTranscriber
    /\ InitCallers

Init ==
    /\ usage \in {"direct", "api", "realtime"}
    /\ config \in IF usage = "realtime" THEN RealtimeConfigs
                  ELSE {c \in FlutterConfigs : NewAccepts(c)}
    /\ InitCommon

PollStep(t) ==
    \/ CheckBusy(t)
    \/ CheckData(t)
    \/ ReadLastProcessed(t)
    \/ CheckHop(t)
    \/ MarkProcessing(t)
    \/ ExtractWindow(t)
    \/ WriteWavFile(t)
    \/ TranscribeFile(t)
    \/ UpdateStats(t)
    \/ UpdateLastProcessed(t)
    \/ ClearProcessing(t)

Next ==
    \/ AddAudioChunk
    \/ \E t \in Pollers : PollStep(t)
    \/ \E t \in Pollers : ApiCallProcess(t)
    \/ \E t \in Pollers : ApiLockProcess(t)
    \/ ApiCallAdd
    \/ ApiRunAdd
    \/ RtAddAudioChunk
    \/ StartProcessing
    \/ LoopReadTime
    \/ LoopReadLast
    \/ LoopExtract
    \/ LoopProcess

Spec == Init /\ [][Next]_vars

(***************************************************************************)
(* The two-window scenario: one caller, no concurrency.  Audio is appended *)
(* until the buffer first holds a window, process_if_ready is polled once, *)
(* then exactly hop_samples more samples are appended and it is polled     *)
(* again.                                                                  *)
(***************************************************************************)
Caller == "p1"

ScenarioConfigs ==
    { [sample_rate |-> 1, window_duration_ms |-> 2000, overlap_duration_ms |-> 1000,
       chunk_size_ms |-> 500],
      [sample_rate |-> 1, window_duration_ms |-> 3000, overlap_duration_ms |-> 1000,
       chunk_size_ms |-> 50],
      [sample_rate |-> 1, window_duration_ms |-> 4000, overlap_duration_ms |-> 1000,
       chunk_size_ms |-> 1000] }

\* Samples appended when the window extracted last was extracted.
WindowEnd == cur_window[Len(cur_window)] + 1

ScenarioAdd ==
    /\ usage = "direct"
    /\ pc[Caller] = "idle"
    /\ \E n \in 1..MaxChunk :
          /\ \/ polls = 0 /\ Len(audio_buffer) < window_size
             \/ polls = 1 /\ cur_window # NoWindow
                          /\ total + n <= WindowEnd + hop_samples
          /\ AddAudioChunkBody(n)
    /\ UNCHANGED << pc, registry >>

ScenarioPoll ==
    /\ \/ pc[Caller] # "idle"
       \/ polls = 0 /\ Len(audio_buffer) >= window_size
       \/ polls = 1 /\ cur_window # NoWindow /\ total = WindowEnd + hop_samples
    /\ PollStep(Caller)

InitScenario ==
    /\ usage = "direct"
    /\ config \in {c \in ScenarioConfigs : NewAccepts(c)}
    /\ InitCommon

NextScenario ==
    \/ ScenarioAdd
    \/ ScenarioPoll

SpecScenario == InitScenario /\ [][NextScenario]_vars

(***************************************************************************)
(* FlutterTranscriberApi over several sessions, src/flutter_api.rs: client *)
(* threads create, feed, poll, query, destroy and list the sessions of the *)
(* TRANSCRIBER_INSTANCES registry.  Every entry point runs under the       *)
(* registry guard; only process_if_ready holds it across a long step (the  *)
(* inference), the others are one critical section each.  A session is the *)
(* FlutterTranscriber as the registry's clients can tell it apart: its     *)
(* configuration, buffer occupancy, watermark, window counter and temp     *)
(* directory.  Beside the registry, threads construct RealTimeTranscribers *)
(* with create_realtime_transcriber.                                       *)
(***************************************************************************)
Ids == {"a", "b"}

\* Configurations handed to create_transcriber: an accepted one, one with
\* overlap = window, one with overlap > window, one with chunk > window/4.
ApiConfigs ==
    { [sample_rate |-> 1, window_duration_ms |-> 1000, overlap_duration_ms |-> 0,
       chunk_size_ms |-> 250],
      [sample_rate |-> 1, window_duration_ms |-> 1000, overlap_duration_ms |-> 1000,
       chunk_size_ms |-> 250],
      [sample_rate |-> 1, window_duration_ms |-> 1000, overlap_duration_ms |-> 2000,
       chunk_size_ms |-> 250],
      [sample_rate |-> 1, window_duration_ms |-> 1000, overlap_duration_ms |-> 0,
       chunk_size_ms |-> 500] }

\* What FlutterTranscriber::new finds outside its arguments.
Environments == {"ok", "model_missing", "load_fails", "temp_dir_fails"}

\* FlutterTranscriber::new, lines 116-147: the checks in the order made.
NewResult(c, env) ==
    IF ~NewAccepts(c) THEN "InvalidParameter"
    ELSE IF env = "model_missing" THEN "ModelInitError"
    ELSE IF env = "load_fails" THEN "ModelInitError"
    ELSE IF env = "temp_dir_fails" THEN "ProcessingError"
    ELSE "Ok"

\* Lines 158-171: the transcriber new returns.
NewTranscriber(c, d) ==
    [config |-> c, buffered |-> 0, last_processed_samples |-> 0,
     total_processed_windows |-> 0, temp_dir |-> d]

\* Lines 144-145: the directory is named after the current millisecond.
Timestamps == {d \in {clock, clock + 1} : d <= MaxClock}

\* HashMap::insert: the entry of id is set, whether or not there was one.
Insert(map, id, transcriber) ==
    [i \in (DOMAIN map) \cup {id} |-> IF i = id THEN transcriber ELSE map[i]]

\* HashMap::remove
Remove(map, id) ==
    [i \in (DOMAIN map) \ {id} |-> map[i]]

\* Faulty variant of AfterFailedCreate: the session is registered before it
\* is known to be constructible.
PartialInsert(map, id, c) ==
    Insert(map, id, NewTranscriber(c, 0))

\* create_transcriber, line 95: the Err arm returns without taking the guard.
AfterFailedCreate(map, id, c) == map

\* instances.keys().cloned().collect()
Keys(map) == DOMAIN map

\* What the call c returns to its caller.
Answer(c, status, error, ids) ==
    [op |-> c.op, id |-> c.id, status |-> status, error |-> error, ids |-> ids]

\* The thread of t returns from its call with the guard dropped.
Returns(t, status, error, ids) ==
    /\ reply' = Answer(call[t], status, error, ids)
    /\ call' = [call EXCEPT ![t] = NoCall]
    /\ pc' = [pc EXCEPT ![t] = "idle"]
    /\ registry' = "free"

\* The transcriber object with the locals and history of its calls.
ObjectVars ==
    << usage, config, audio_buffer, last_processed_samples, is_processing,
       processing_stats, temp_files, last_processed, window_samples, result, ret,
       last_processed_time, rt_pc, current_time, rt_last_processed, audio_window,
       total, cur_window, shared, polls, fresh, quiet, iter_total, done_total,
       attempts, texts >>

\* Everything but the registry, its guard and its clients.
TranscriberVars == << ObjectVars, CallerVars >>

ApiOps == {"add_audio_chunk", "process_if_ready", "get_buffer_status",
           "destroy_transcriber", "list_transcribers"}

\* create_transcriber(id, config), lines 82-89 and 95: FlutterTranscriber::new
\* runs without the guard; on Err the call returns, on Ok the temp directory
\* exists and the call goes on to line 91.
CreateTranscriberNew(t) ==
    /\ pc[t] = "idle"
    /\ calls < MaxCalls
    /\ calls' = calls + 1
    /\ \E id \in Ids, c \in ApiConfigs, env \in Environments :
          LET r == NewResult(c, env)
              this == [op |-> "create_transcriber", id |-> id, config |-> NoConfig,
                       temp_dir |-> 0]
          IN  IF r = "Ok"
              THEN \E d \in Timestamps :
                      /\ clock' = d
                      /\ dirs' = dirs \cup {d}
                      /\ call' = [call EXCEPT ![t] =
                                    [this EXCEPT !.config = c, !.temp_dir = d]]
                      /\ pc' = [pc EXCEPT ![t] = "api_insert"]
                      /\ UNCHANGED << instances, reply >>
              ELSE /\ instances' = AfterFailedCreate(instances, id, c)
                   /\ reply' = Answer(this, "Err", r, {})
                   /\ UNCHANGED << call, pc, dirs, clock >>
    /\ UNCHANGED << realtime_live, registry >>
    /\ UNCHANGED TranscriberVars

\* Drop for FlutterTranscriber, lines 564-568, with cleanup, lines 480-489:
\* the temp directory is removed, or stays when remove_dir_all fails.
AfterDrop(d) == {dirs \ {d}, dirs}

\* Lines 91-93: under the guard the transcriber is inserted under its id and
\* Ok is returned; a transcriber the id already had is dropped.
CreateTranscriberInsert(t) ==
    /\ pc[t] = "api_insert"
    /\ registry = "free"
    /\ instances' = Insert(instances, call[t].id,
                           NewTranscriber(call[t].config, call[t].temp_dir))
    /\ IF call[t].id \in DOMAIN instances
       THEN dirs' \in AfterDrop(instances[call[t].id].temp_dir)
       ELSE UNCHANGED dirs
    /\ Returns(t, "Ok", "none", {})
    /\ UNCHANGED << clock, realtime_live, calls >>
    /\ UNCHANGED TranscriberVars

\* A client thread calls one of the other entry points on an id.
ApiCall(t) ==
    /\ pc[t] = "idle"
    /\ calls < MaxCalls
    /\ \E op \in ApiOps, id \in Ids :
          call' = [call EXCEPT ![t] = [op |-> op,
                     id |-> IF op = "list_transcribers" THEN "none" ELSE id,
                     config |-> NoConfig, temp_dir |-> 0]]
    /\ calls' = calls + 1
    /\ pc' = [pc EXCEPT ![t] = "api_wait"]
    /\ UNCHANGED << instances, reply, dirs, clock, realtime_live, registry >>
    /\ UNCHANGED TranscriberVars

\* The call of t has reached TRANSCRIBER_INSTANCES.lock() and the guard is free.
AtGuard(t, op) ==
    /\ pc[t] = "api_wait"
    /\ call[t].op = op
    /\ registry = "free"

\* (sample_rate as u64 * max_buffer_duration_ms as u64 / 1000) as usize
SessionMaxSamples(s) == (s.config.sample_rate * s.config.window_duration_ms * 5) \div 1000

\* required_samples, flutter_transcriber.rs line 227
SessionWindowSize(s) == (s.config.sample_rate * s.config.window_duration_ms) \div 1000

\* hop_samples, flutter_transcriber.rs line 244
SessionHopSamples(s) ==
    (s.config.sample_rate * (s.config.window_duration_ms - s.config.overlap_duration_ms))
        \div 1000

\* FlutterTranscriber::add_audio_chunk as the session sees it: n samples more,
\* the excess over max_samples evicted.
SessionAfterAdd(s, n) ==
    [s EXCEPT !.buffered = IF s.buffered + n > SessionMaxSamples(s)
                           THEN SessionMaxSamples(s) ELSE s.buffered + n]

\* FlutterTranscriberApi::add_audio_chunk, lines 100-119.
ApiAddAudioChunk(t) ==
    /\ AtGuard(t, "add_audio_chunk")
    /\ IF call[t].id \in DOMAIN instances
       THEN /\ \E n \in 1..MaxChunk :
                  instances' = [instances EXCEPT ![call[t].id] = SessionAfterAdd(@, n)]
            /\ Returns(t, "Ok", "none", {})
       ELSE /\ Returns(t, "Err", "NotFound", {})
            /\ UNCHANGED instances
    /\ UNCHANGED << dirs, clock, realtime_live, calls >>
    /\ UNCHANGED TranscriberVars

\* FlutterTranscriber::process_if_ready, lines 226-251, on a session.
SessionReady(s) ==
    /\ ~(s.buffered < SessionWindowSize(s))
    /\ ~(s.buffered - s.last_processed_samples < SessionHopSamples(s))

\* FlutterTranscriberApi::process_if_ready, lines 122-142, up to the backend
\* call: the guard taken at line 123 stays held while the window is processed.
ApiProcessIfReady(t) ==
    /\ AtGuard(t, "process_if_ready")
    /\ IF call[t].id \notin DOMAIN instances
       THEN Returns(t, "Err", "NotFound", {})
       ELSE IF ~SessionReady(instances[call[t].id])
       THEN Returns(t, "Ok", "none", {})
       ELSE /\ registry' = t
            /\ pc' = [pc EXCEPT ![t] = "api_infer"]
            /\ UNCHANGED << call, reply >>
    /\ UNCHANGED << instances, dirs, clock, realtime_live, calls >>
    /\ UNCHANGED TranscriberVars

\* process_current_window, lines 297-311, on a session: a backend error
\* leaves the session as it was, any other outcome counts the window and
\* moves the watermark to the buffer length.
SessionAfterWindow(s, outcome) ==
    IF outcome = "Err" THEN s
    ELSE [s EXCEPT !.total_processed_windows = @ + 1,
                   !.last_processed_samples = s.buffered]

\* The backend call of t's process_if_ready ends and the call returns.
ApiInferenceDone(t) ==
    /\ pc[t] = "api_infer"
    /\ \E outcome \in {"Some", "None", "Err"} :
          /\ instances' = [instances EXCEPT ![call[t].id] = SessionAfterWindow(@, outcome)]
          /\ IF outcome = "Err"
             THEN Returns(t, "Err", "ProcessingError", {})
             ELSE Returns(t, "Ok", "none", {})
    /\ UNCHANGED << dirs, clock, realtime_live, calls >>
    /\ UNCHANGED TranscriberVars

\* FlutterTranscriberApi::get_buffer_status, lines 169-184.
ApiGetBufferStatus(t) ==
    /\ AtGuard(t, "get_buffer_status")
    /\ IF call[t].id \in DOMAIN instances
       THEN Returns(t, "Ok", "none", {})
       ELSE Returns(t, "Err", "NotFound", {})
    /\ UNCHANGED << instances, dirs, clock, realtime_live, calls >>
    /\ UNCHANGED TranscriberVars

\* Faulty variant of DestroyResult: an unknown id is a silent no-op.
DestroySilent(found, cleaned) ==
    IF found /\ ~cleaned THEN "Err" ELSE "Ok"

\* destroy_transcriber, lines 215-222: the three arms.
DestroyResult(found, cleaned) ==
    IF found THEN (IF cleaned THEN "Ok" ELSE "Err") ELSE "Err"

\* FlutterTranscriberApi::destroy_transcriber, lines 212-223: the entry is
\* removed first; cleanup() removes the temp directory (Ok) or fails (Err,
\* the entry staying removed), and the removed transcriber is dropped.
ApiDestroyTranscriber(t) ==
    /\ AtGuard(t, "destroy_transcriber")
    /\ instances' = Remove(instances, call[t].id)
    /\ IF call[t].id \in DOMAIN instances
       THEN LET d == instances[call[t].id].temp_dir IN
              \/ /\ dirs' = dirs \ {d}
                 /\ Returns(t, DestroyResult(TRUE, TRUE), "none", {})
              \/ /\ d \in dirs
                 /\ dirs' \in AfterDrop(d)
                 /\ Returns(t, DestroyResult(TRUE, FALSE), "CleanupFailed", {})
       ELSE /\ Returns(t, DestroyResult(FALSE, FALSE), "NotFound", {})
            /\ UNCHANGED dirs
    /\ UNCHANGED << clock, realtime_live, calls >>
    /\ UNCHANGED TranscriberVars

\* FlutterTranscriberApi::list_transcribers, lines 226-229.
ApiListTranscribers(t) ==
    /\ AtGuard(t, "list_transcribers")
    /\ Returns(t, "Ok", "none", Keys(instances))
    /\ UNCHANGED << instances, dirs, clock, realtime_live, calls >>
    /\ UNCHANGED TranscriberVars

InitApi ==
    /\ usage = "api"
    /\ config \in {c \in ApiConfigs : NewAccepts(c)}
    /\ InitCommon

NextApi ==
    \/ \E t \in Clients : CreateTranscriberNew(t)
    \/ \E t \in Clients : CreateTranscriberInsert(t)
    \/ \E t \in Clients : ApiCall(t)
    \/ \E t \in Clients : ApiAddAudioChunk(t)
    \/ \E t \in Clients : ApiProcessIfReady(t)
    \/ \E t \in Clients : ApiInferenceDone(t)
    \/ \E t \in Clients : ApiGetBufferStatus(t)
    \/ \E t \in Clients : ApiDestroyTranscriber(t)
    \/ \E t \in Clients : ApiListTranscribers(t)

SpecApi == InitApi /\ [][NextApi]_vars

(***************************************************************************)
(* The RealTimeTranscribers a program can hold, src/realtime_transcriber.rs:*)
(* create_realtime_transcriber constructs one from its arguments, dropping *)
(* the box ends it.  Durations are in ticks.                               *)
(***************************************************************************)
\* Arguments handed to create_realtime_transcriber: overlap below, equal to
\* and above the window, at sample rate 0 and at a positive one.
RealtimeArguments ==
    { [sample_rate |-> sr, window_duration |-> w, overlap_duration |-> o,
       max_buffer_duration |-> 10] :
          sr \in {0, 2}, w \in {2, 4}, o \in {1, 4, 6} }

\* RealTimeTranscriber::new, lines 61-92: the only thing that can fail is
\* init_whisper at line 75; the durations are stored as given.
RealtimeNewResult(c, env) ==
    IF env = "ok" THEN "Ok" ELSE "ModelInitError"

\* create_realtime_transcriber, lines 299-316.
CreateRealtimeTranscriber ==
    /\ \E c \in RealtimeArguments, env \in {"ok", "load_fails"} :
          /\ RealtimeNewResult(c, env) = "Ok"
          /\ realtime_live' = realtime_live \cup {c}
    /\ UNCHANGED << instances, call, reply, dirs, clock, calls, pc, registry >>
    /\ UNCHANGED TranscriberVars

\* Drop for RealTimeTranscriber, lines 289-296.
DropRealtimeTranscriber ==
    /\ \E c \in realtime_live : realtime_live' = realtime_live \ {c}
    /\ UNCHANGED << instances, call, reply, dirs, clock, calls, pc, registry >>
    /\ UNCHANGED TranscriberVars

InitRealtimeNew ==
    /\ usage = "realtime"
    /\ config \in RealtimeConfigs
    /\ InitCommon

NextRealtimeNew ==
    \/ CreateRealtimeTranscriber
    \/ DropRealtimeTranscriber

SpecRealtimeNew == InitRealtimeNew /\ [][NextRealtimeNew]_vars

(***************************************************************************)
(* FlutterTranscriber::validate_transcription, src/flutter_transcriber.rs: *)
(* a caller holds two texts and validates one against the other.           *)
(***************************************************************************)
\* Longest unmarked text a caller starts from.
MaxLetters == 6
\* Longest text whose writing the caller varies.
MaxBase == 1
\* How many times the writing of the two texts is varied.
MaxEdits == 2

\* The characters callers write: a and b with their capitals A and B, the
\* white space, and one diacritic mark out of each range of line 495
\* (U+064E fatha, U+0670 superscript alef, U+06D6 small high ligature).
Letters == {97, 98}
Capitals == {65, 66}
Diacritics == {1614, 1648, 1750}

\* Line 495: matches!(c, '\u{064B}'..='\u{065F}' | '\u{0670}' | '\u{06D6}'..='\u{06ED}')
IsDiacritic(c) == c \in 1611..1631 \/ c = 1648 \/ c \in 1750..1773

\* char::to_lowercase, on the characters of the model
LowerOf(c) == IF c \in 65..90 THEN c + 32 ELSE c

\* The capital of a letter, the letter of a capital.
OtherCase(c) == IF c \in 65..90 THEN c + 32 ELSE IF c \in 97..122 THEN c - 32 ELSE c

\* The texts of letters up to length n.
LetterTexts(n) == UNION {[1..k -> Letters] : k \in 0..n}

\* Lines 494-496: the characters that are not diacritic marks, in order.
FilterDiacritics(text) == SelectSeq(text, LAMBDA c : ~IsDiacritic(c))

\* Line 498: str::to_lowercase.
ToLowercase(text) == [i \in 1..Len(text) |-> LowerOf(text[i])]

\* Faulty variant of clean_arabic_text: white space is trimmed before the
\* marks are removed.
CleanTrimFirst(text) == ToLowercase(FilterDiacritics(Trim(text)))

\* clean_arabic_text, lines 492-499: filter, then trim, then lower-case.
clean_arabic_text(text) == ToLowercase(Trim(FilterDiacritics(text)))

\* usize::min
Min(a, b) == IF a < b THEN a ELSE b

\* usize::max
Max(a, b) == IF a > b THEN a ELSE b

\* Lines 535-541 for one i: the row matrix[i], filled from j = 1 on, given
\* the row above it; `row` holds matrix[i][0..Len(row)-1].
RECURSIVE MatrixRow(_, _, _, _)
MatrixRow(above, c, chars2, row) ==
    IF Len(row) = Len(chars2) + 1 THEN row
    ELSE LET j == Len(row)
             cost == IF c = chars2[j] THEN 0 ELSE 1
             cell == Min(Min(above[j + 1] + 1, row[j] + 1), above[j] + cost)
         IN  MatrixRow(above, c, chars2, Append(row, cell))

\* Lines 528-542: the rows from i on, matrix[i][0] = i.
RECURSIVE MatrixRows(_, _, _, _)
MatrixRows(chars1, chars2, i, above) ==
    IF i > Len(chars1) THEN above
    ELSE MatrixRows(chars1, chars2, i + 1, MatrixRow(above, chars1[i], chars2, << i >>))

\* levenshtein_distance, lines 520-545: matrix[len1][len2].
levenshtein_distance(s1, s2) ==
    MatrixRows(s1, s2, 1, [j \in 1..(Len(s2) + 1) |-> j - 1])[Len(s2) + 1]

\* An f64 between 0 and 1 as the fraction it is the nearest double of.
Fraction(n, d) == [num |-> n, den |-> d]

\* f64 comparison with the literal n/d.
GreaterThan(x, n, d) == x.num * d > n * x.den
LessThan(x, n, d) == x.num * d < n * x.den

\* calculate_similarity, lines 501-518.
calculate_similarity(text1, text2) ==
    LET len1 == Len(text1)
        len2 == Len(text2)
        max_len == Max(len1, len2)
    IN  IF len1 = 0 /\ len2 = 0 THEN Fraction(1, 1)
        ELSE IF len1 = 0 \/ len2 = 0 THEN Fraction(0, 1)
        ELSE Fraction(max_len - levenshtein_distance(text1, text2), max_len)

\* Faulty variant of ValidationTypeOf: 0.8 itself counted as a fuzzy match.
ValidationTypeInclusive(similarity) ==
    IF ~LessThan(similarity, 8, 10) THEN "FuzzyMatch"
    ELSE IF GreaterThan(similarity, 6, 10) THEN "PhoneticMatch"
    ELSE "NoMatch"

\* Lines 440-446.
ValidationTypeOf(similarity) ==
    IF GreaterThan(similarity, 8, 10) THEN "FuzzyMatch"
    ELSE IF GreaterThan(similarity, 6, 10) THEN "PhoneticMatch"
    ELSE "NoMatch"

\* Option<String>
None == [some |-> FALSE, text |-> << >>]
Some(text) == [some |-> TRUE, text |-> text]

\* Lines 437-455: the result for texts whose clean forms differ.
CompareClean(t, e, transcribed_clean, expected_clean) ==
    LET similarity == calculate_similarity(transcribed_clean, expected_clean)
    IN  [transcribed_word |-> t, expected_word |-> e,
         is_match |-> GreaterThan(similarity, 8, 10),
         similarity_score |-> similarity,
         suggestion |-> IF LessThan(similarity, 8, 10) THEN Some(e) ELSE None,
         validation_type |-> ValidationTypeOf(similarity)]

\* Faulty variant of validate_transcription: no arm for equal clean forms.
ValidateBySimilarity(t, e) ==
    CompareClean(t, e, clean_arabic_text(t), clean_arabic_text(e))

\* validate_transcription, lines 421-456.
validate_transcription(t, e) ==
    LET transcribed_clean == clean_arabic_text(t)
        expected_clean == clean_arabic_text(e)
    IN  IF transcribed_clean = expected_clean
        THEN [transcribed_word |-> t, expected_word |-> e, is_match |-> TRUE,
              similarity_score |-> Fraction(1, 1), suggestion |-> None,
              validation_type |-> "ExactMatch"]
        ELSE CompareClean(t, e, transcribed_clean, expected_clean)

\* c put into text after its first pos characters.
InsertAt(text, pos, c) ==
    SubSeq(text, 1, pos) \o << c >> \o SubSeq(text, pos + 1, Len(text))

\* The caller may still vary the writing of a text.
MayEdit ==
    /\ validation = NoValidation
    /\ edits < MaxEdits

\* One of the two texts becomes text.
Rewrite(side, text) ==
    /\ transcribed' = IF side = "transcribed" THEN text ELSE transcribed
    /\ expected' = IF side = "expected" THEN text ELSE expected
    /\ edits' = edits + 1
    /\ UNCHANGED << variants, validation >>
    /\ UNCHANGED << ObjectVars, RegistryVars, StatsVars, ExtraVars, pc, registry >>

Sides == {"transcribed", "expected"}
TextOf(side) == IF side = "transcribed" THEN transcribed ELSE expected

\* The caller writes a diacritic mark somewhere in one of the texts.
AddDiacritic ==
    /\ MayEdit
    /\ \E side \in Sides, m \in Diacritics :
          \E pos \in 0..Len(TextOf(side)) : Rewrite(side, InsertAt(TextOf(side), pos, m))

\* The caller puts white space before or after one of the texts.
PadWhitespace ==
    /\ MayEdit
    /\ \E side \in Sides, w \in Whitespace :
          \E pos \in {0, Len(TextOf(side))} : Rewrite(side, InsertAt(TextOf(side), pos, w))

\* The caller changes the case of one letter of one of the texts.
ChangeCase ==
    /\ MayEdit
    /\ \E side \in Sides :
          \E pos \in 1..Len(TextOf(side)) :
             /\ TextOf(side)[pos] \in Letters \cup Capitals
             /\ Rewrite(side, [TextOf(side) EXCEPT ![pos] = OtherCase(@)])

\* The caller validates one text against the other, in either order.
ValidateTranscription ==
    /\ validation = NoValidation
    /\ \E pair \in {<< transcribed, expected >>, << expected, transcribed >>} :
          validation' = validate_transcription(pair[1], pair[2])
    /\ UNCHANGED << transcribed, expected, variants, edits >>
    /\ UNCHANGED << ObjectVars, RegistryVars, StatsVars, ExtraVars, pc, registry >>

\* The caller holds two texts of letters, or two short ones whose writing it
\* goes on to vary.
InitValidate ==
    /\ usage = "direct"
    /\ config = CHOOSE c \in FlutterConfigs : NewAccepts(c)
    /\ InitTranscriber
    /\ validation = NoValidation
    /\ InitStatsIdle
    /\ InitExtras
    /\ \/ /\ transcribed \in LetterTexts(MaxLetters)
          /\ expected \in LetterTexts(MaxLetters)
          /\ variants = (transcribed = expected)
          /\ edits = MaxEdits
       \/ /\ transcribed \in LetterTexts(MaxBase)
          /\ expected \in LetterTexts(MaxBase)
          /\ variants = (transcribed = expected)
          /\ edits = 0

NextValidate ==
    \/ AddDiacritic
    \/ PadWhitespace
    \/ ChangeCase
    \/ ValidateTranscription

SpecValidate == InitValidate /\ [][NextValidate]_vars

(***************************************************************************)
(* The inside of update_stats and get_stats, src/flutter_transcriber.rs    *)
(* lines 547-561 and 459-461: every assignment to a field of               *)
(* processing_stats is a step of its own, made holding the mutex.          *)
(***************************************************************************)
\* No update_stats is begun once this many have completed.
MaxUpdates == 3
\* Longest processing time of a window, in ms.
MaxMillis == 2

\* Faulty variant of CanLock: the guard is handed out whoever holds it.
LockIgnored(lock) == TRUE

\* Mutex::lock returns once no thread holds the guard.
CanLock(lock) == lock = "free"

RECURSIVE GCD(_, _)
GCD(a, b) == IF b = 0 THEN a ELSE GCD(b, a % b)

\* The f64 that is the quotient n / d, as a fraction in lowest terms.
Quotient(n, d) == LET g == GCD(n, d) IN Fraction(n \div g, d \div g)

\* Line 556: (average * (total - 1) + processing_time_ms) / total
NewAverage(stats, processing_time_ms) ==
    LET average == stats.average_processing_time_ms
        n == stats.total_processed_windows
    IN  Quotient(average.num * (n - 1) + processing_time_ms * average.den,
                 average.den * n)

\* Line 559: window_duration_ms / processing_time_ms
NewRealTimeFactor(processing_time_ms) ==
    Quotient(config.window_duration_ms, processing_time_ms)

\* What update_stats and get_stats leave alone.
StatsFrame ==
    /\ UNCHANGED << usage, config, audio_buffer, last_processed_samples, is_processing,
                    temp_files, registry, last_processed, window_samples, ret >>
    /\ UNCHANGED << total, cur_window, shared, polls, fresh, quiet, iter_total,
                    done_total, attempts, texts >>
    /\ UNCHANGED RealtimeVars
    /\ UNCHANGED RegistryVars
    /\ UNCHANGED ValidationVars
    /\ UNCHANGED ExtraVars

\* Lines 303-304: a window was transcribed in processing_time ms, with a
\* transcription or without, and update_stats is called.
CallUpdateStats(t) ==
    /\ pc[t] = "idle"
    /\ Len(committed) <= MaxUpdates
    /\ \E ms \in 1..MaxMillis, r \in {"Some", "NoneSilent"} :
          /\ processing_time' = [processing_time EXCEPT ![t] = ms]
          /\ result' = [result EXCEPT ![t] = r]
    /\ pc' = [pc EXCEPT ![t] = "update_stats"]
    /\ UNCHANGED << processing_stats, stats_lock, reader, snapshot, committed >>
    /\ StatsFrame

\* Line 548: the guard of processing_stats is taken.
LockStats(t) ==
    /\ pc[t] = "update_stats"
    /\ CanLock(stats_lock)
    /\ stats_lock' = t
    /\ pc' = [pc EXCEPT ![t] = "stats_locked"]
    /\ UNCHANGED << processing_stats, processing_time, result, reader, snapshot, committed >>
    /\ StatsFrame

\* Line 549.
CountWindow(t) ==
    /\ pc[t] = "stats_locked"
    /\ processing_stats' = [processing_stats EXCEPT !.total_processed_windows = @ + 1]
    /\ pc' = [pc EXCEPT ![t] = "count_success"]
    /\ UNCHANGED << stats_lock, processing_time, result, reader, snapshot, committed >>
    /\ StatsFrame

\* Lines 551-553.
CountSuccess(t) ==
    /\ pc[t] = "count_success"
    /\ processing_stats' = IF result[t] = "Some"
                           THEN [processing_stats EXCEPT !.successful_transcriptions = @ + 1]
                           ELSE processing_stats
    /\ pc' = [pc EXCEPT ![t] = "average"]
    /\ UNCHANGED << stats_lock, processing_time, result, reader, snapshot, committed >>
    /\ StatsFrame

\* Lines 555-556.
UpdateAverage(t) ==
    /\ pc[t] = "average"
    /\ processing_stats' =
          [processing_stats EXCEPT !.average_processing_time_ms =
                                      NewAverage(processing_stats, processing_time[t])]
    /\ pc' = [pc EXCEPT ![t] = "real_time_factor"]
    /\ UNCHANGED << stats_lock, processing_time, result, reader, snapshot, committed >>
    /\ StatsFrame

\* Lines 558-561: the last field is written and the guard is dropped.
UpdateFactor(t) ==
    /\ pc[t] = "real_time_factor"
    /\ processing_stats' =
          [processing_stats EXCEPT !.real_time_factor = NewRealTimeFactor(processing_time[t])]
    /\ committed' = Append(committed, processing_stats')
    /\ stats_lock' = "free"
    /\ pc' = [pc EXCEPT ![t] = "idle"]
    /\ processing_time' = [processing_time EXCEPT ![t] = 0]
    /\ result' = [result EXCEPT ![t] = "unset"]
    /\ UNCHANGED << reader, snapshot >>
    /\ StatsFrame

\* A thread calls get_stats; it finds the guard free or held.
CallGetStats ==
    /\ reader \in {"idle", "served"}
    /\ reader' = IF CanLock(stats_lock) THEN "called" ELSE "waiting"
    /\ UNCHANGED << processing_stats, stats_lock, processing_time, result, snapshot,
                    committed, pc >>
    /\ StatsFrame

\* get_stats, line 460: lock, clone, unlock.
GetStats ==
    /\ reader \in {"called", "waiting"}
    /\ CanLock(stats_lock)
    /\ snapshot' = processing_stats
    /\ reader' = IF reader = "waiting" THEN "served" ELSE "idle"
    /\ UNCHANGED << processing_stats, stats_lock, processing_time, result, committed, pc >>
    /\ StatsFrame



InitStats ==
    /\ usage = "direct"
    /\ config = CHOOSE c \in FlutterConfigs : NewAccepts(c)
    /\ InitCommon

NextStats ==
    \/ \E t \in Pollers : CallUpdateStats(t)
    \/ \E t \in Pollers : LockStats(t)
    \/ \E t \in Pollers : CountWindow(t)
    \/ \E t \in Pollers : CountSuccess(t)
    \/ \E t \in Pollers : UpdateAverage(t)
    \/ \E t \in Pollers : UpdateFactor(t)
    \/ CallGetStats
    \/ GetStats

SpecStats == InitStats /\ [][NextStats]_vars

(***************************************************************************)
(* The helpers of RealTimeTranscriber, src/realtime_transcriber.rs:        *)
(* get_buffer_duration while chunks are appended, and validate_text on two *)
(* texts the caller holds.                                                 *)
(***************************************************************************)
\* Longest text handed to validate_text.
MaxTextLen == 3

\* Texts of a letter and white space.
PaddedTexts(n) == UNION {[1..k -> {97} \cup Whitespace] : k \in 0..n}

\* Faulty variant of BufferSeconds: the samples appended, evicted or not.
AppendedSeconds(buffer) == Quotient(total, config.sample_rate)

\* Line 115: buffer.len() as f64 / self.sample_rate as f64, in seconds.
BufferSeconds(buffer) == Quotient(Len(buffer), config.sample_rate)

\* What the helpers leave alone.
RealtimeCallFrame ==
    /\ UNCHANGED << ObjectVars, RegistryVars, CoreVars, pc, registry >>
    /\ UNCHANGED << SlidingVars, InstanceVars, LoopsVars, LockVars >>

\* get_buffer_duration, lines 113-116, under the buffer lock.
GetBufferDuration ==
    /\ usage = "realtime"
    /\ buffer_duration' = BufferSeconds(audio_buffer)
    /\ asked_total' = total
    /\ UNCHANGED text_validation
    /\ RealtimeCallFrame

\* Faulty variant of TextsMatch: the texts compared as given.
TextsIdentical(t, e) == t = e

\* Line 268: transcribed.trim() == expected.trim()
TextsMatch(t, e) == Trim(t) = Trim(e)

\* validate_text, lines 262-278.
validate_text(t, e) ==
    LET is_match == TextsMatch(t, e)
    IN  [original_word |-> t, expected_word |-> e, is_match |-> is_match,
         confidence |-> IF is_match THEN 1 ELSE 0,
         suggestion |-> IF ~is_match THEN Some(e) ELSE None]

\* The caller validates the text it transcribed against the one it expected.
ValidateText ==
    /\ usage = "realtime"
    /\ text_validation = NoTextValidation
    /\ text_validation' = validate_text(transcribed, expected)
    /\ UNCHANGED << buffer_duration, asked_total >>
    /\ RealtimeCallFrame

InitRealtimeCalls ==
    /\ usage = "realtime"
    /\ config \in RealtimeConfigs
    /\ InitTranscriber
    /\ InitStatsIdle
    /\ InitRealtimeCallsIdle
    /\ InitSlidingIdle
    /\ InitInstances
    /\ InitLoops
    /\ InitLocks
    /\ transcribed \in PaddedTexts(MaxTextLen)
    /\ expected \in PaddedTexts(MaxTextLen)
    /\ variants = FALSE
    /\ edits = 0
    /\ validation = NoValidation

NextRealtimeCalls ==
    \/ RtAddAudioChunk
    \/ GetBufferDuration
    \/ ValidateText

SpecRealtimeCalls == InitRealtimeCalls /\ [][NextRealtimeCalls]_vars

(***************************************************************************)
(* WhisperContext::process_audio_sliding_window, src/lib.rs lines 435-488, *)
(* on an audio of audio_len samples.  Seconds are held in ticks as above;  *)
(* a range << from, to >> stands for the samples audio_data[from..to].     *)
(***************************************************************************)
\* Longest audio, in samples.
MaxAudio == 6
\* Longest window and step, in ticks.
MaxSeconds == 4
\* No window is submitted once this many have been.
MaxWindows == 8

\* The arguments a caller can pass, the context loaded or not.
SlidingCalls ==
    [loaded : BOOLEAN, audio_len : 0..MaxAudio, window_size_sec : 0..MaxSeconds,
     step_size_sec : 0..MaxSeconds, sample_rate : 0..2]

\* Lines 443-453: the argument checks, in order.
SlidingRejects(c) ==
    \/ ~c.loaded
    \/ c.window_size_sec <= 0 \/ c.step_size_sec <= 0 \/ c.step_size_sec > c.window_size_sec
    \/ c.sample_rate <= 0

\* Line 455: (window_size_sec * sample_rate as f32) as usize
window_samples_of(c) == SamplesIn(c.sample_rate, c.window_size_sec)

\* Line 456: (step_size_sec * sample_rate as f32) as usize
step_samples_of(c) == SamplesIn(c.sample_rate, c.step_size_sec)

\* Line 478: position < audio_data.len() && audio_data.len() - position > step_samples / 2
TailDue(pos, len, step) == pos < len /\ len - pos > step \div 2

\* Line 479: audio_data.len() - window_samples.min(audio_data.len()) .. audio_data.len()
LastWindow(len, window) == << len - Min(window, len), len >>

\* What the function leaves alone.
SlidingFrame ==
    /\ UNCHANGED << ObjectVars, RegistryVars, CoreVars, pc, registry >>
    /\ UNCHANGED << RealtimeCallVars, InstanceVars, LoopsVars, LockVars >>

\* process_audio on the samples of range: the range is noted, and the call
\* succeeds (the function goes on at `next`) or fails (`?` returns the Err).
ProcessAudio(range, next) ==
    /\ submitted' = Append(submitted, range)
    /\ sw_pc' \in {next, "err"}

\* Lines 443-464: the checks; an audio no longer than a window is processed
\* whole and the function returns; else the loop starts at position 0.
SlidingStart ==
    /\ sw_pc = "called"
    /\ IF SlidingRejects(sliding_call)
       THEN /\ sw_pc' = "err"
            /\ UNCHANGED << position, submitted >>
       ELSE IF window_samples_of(sliding_call) >= sliding_call.audio_len
       THEN /\ ProcessAudio(<< 0, sliding_call.audio_len >>, "ok")
            /\ UNCHANGED position
       ELSE /\ sw_pc' = "loop"
            /\ position' = 0
            /\ UNCHANGED submitted
    /\ UNCHANGED sliding_call
    /\ SlidingFrame

\* Lines 466-475: one iteration of the loop, or its end.
SlidingStep ==
    /\ sw_pc = "loop"
    /\ Len(submitted) < MaxWindows
    /\ IF position + window_samples_of(sliding_call) <= sliding_call.audio_len
       THEN /\ ProcessAudio(<< position, position + window_samples_of(sliding_call) >>,
                            "loop")
            /\ position' = IF sw_pc' = "loop"
                           THEN position + step_samples_of(sliding_call) ELSE position
       ELSE /\ sw_pc' = "tail"
            /\ UNCHANGED << position, submitted >>
    /\ UNCHANGED sliding_call
    /\ SlidingFrame

\* Lines 477-487: the last window, if line 478 asks for it, and the return.
SlidingTail ==
    /\ sw_pc = "tail"
    /\ IF TailDue(position, sliding_call.audio_len, step_samples_of(sliding_call))
       THEN ProcessAudio(LastWindow(sliding_call.audio_len,
                                    window_samples_of(sliding_call)), "ok")
       ELSE /\ sw_pc' = "ok"
            /\ UNCHANGED submitted
    /\ UNCHANGED << position, sliding_call >>
    /\ SlidingFrame

InitSliding ==
    /\ usage = "direct"
    /\ config = CHOOSE c \in FlutterConfigs : NewAccepts(c)
    /\ InitTranscriber
    /\ InitNoTexts
    /\ InitStatsIdle
    /\ InitRealtimeCallsIdle
    /\ InitInstances
    /\ InitLoops
    /\ InitLocks
    /\ sliding_call \in SlidingCalls
    /\ sw_pc = "called"
    /\ position = 0
    /\ submitted = << >>

NextSliding ==
    \/ SlidingStart
    \/ SlidingStep
    \/ SlidingTail

SpecSliding == InitSliding /\ [][NextSliding]_vars

(***************************************************************************)
(* The instance table of src/lib.rs: whisper_rust_init, whisper_rust_free  *)
(* and whisper_rust_is_valid (lines 493-531) behind init_whisper,          *)
(* free_whisper and is_valid_model (lines 735-763), called by two clients. *)
(***************************************************************************)
\* Most calls of init_whisper that load a model.
MaxInits == 4
\* Most ids free_whisper frees.
MaxFrees == 3

\* i32
MaxI32 == 2147483647
MinI32 == -MaxI32 - 1

\* The ids a client may pass to free_whisper and is_valid_model.
InstanceIds == -1..MaxInits

\* Faulty variant of NextId: the counter is left where it was.
SameId(id) == id

\* Line 504: *next_id += 1, on an i32 (wrapping, as a release build does).
NextId(id) == IF id = MaxI32 THEN MinI32 ELSE id + 1

\* What the instance table functions leave alone.
InstanceFrame ==
    /\ UNCHANGED << ObjectVars, RegistryVars, CoreVars, pc, registry >>
    /\ UNCHANGED << RealtimeCallVars, SlidingVars, LoopsVars, LockVars >>

\* init_whisper lines 735-744 and whisper_rust_init lines 495-500: the model
\* file exists and WhisperContext::new loads it, or the call returns an error
\* and nothing changes.
InitWhisperLoad(t) ==
    /\ init_pc[t] = "idle"
    /\ next_instance_id < MaxInits
    /\ init_pc' = [init_pc EXCEPT ![t] = "loaded"]
    /\ UNCHANGED << next_instance_id, next_id_lock, contexts, instance_id, issued, freed,
                    answer >>
    /\ InstanceFrame

\* Lines 495-500, 511: the path is not valid or the model does not load.
InitWhisperFail(t) ==
    /\ init_pc[t] = "idle"
    /\ answer' = [op |-> "init", id |-> -1, result |-> FALSE, freed_before |-> FALSE]
    /\ UNCHANGED << next_instance_id, next_id_lock, contexts, init_pc, instance_id,
                    issued, freed >>
    /\ InstanceFrame

\* Lines 502-504: under the NEXT_INSTANCE_ID mutex the id is read and the
\* counter moved on; the mutex stays held.
InitWhisperTakeId(t) ==
    /\ init_pc[t] = "loaded"
    /\ next_id_lock = "free"
    /\ next_id_lock' = t
    /\ instance_id' = [instance_id EXCEPT ![t] = next_instance_id]
    /\ next_instance_id' = NextId(next_instance_id)
    /\ init_pc' = [init_pc EXCEPT ![t] = "insert"]
    /\ UNCHANGED << contexts, issued, freed, answer >>
    /\ InstanceFrame

\* Lines 506-509 and 746-750: under the INSTANCES mutex the context is
\* inserted; both mutexes are released and the id is returned, which
\* init_whisper hands on when it is not negative.
InitWhisperInsert(t) ==
    /\ init_pc[t] = "insert"
    /\ contexts' = contexts \cup {instance_id[t]}
    /\ next_id_lock' = "free"
    /\ issued' = IF instance_id[t] < 0 THEN issued ELSE Append(issued, instance_id[t])
    /\ init_pc' = [init_pc EXCEPT ![t] = "idle"]
    /\ UNCHANGED << next_instance_id, instance_id, freed >>
    /\ UNCHANGED answer
    /\ InstanceFrame

\* Lines 516-519 and 753-759: free_whisper(id) is Ok iff the table held id.
FreeWhisper(t, id) ==
    /\ Cardinality(freed) < MaxFrees \/ id \in freed
    /\ contexts' = contexts \ {id}
    /\ freed' = IF id \in contexts THEN freed \cup {id} ELSE freed
    /\ answer' = [op |-> "free", id |-> id, result |-> id \in contexts,
                  freed_before |-> id \in freed]
    /\ UNCHANGED << next_instance_id, next_id_lock, init_pc, instance_id, issued >>
    /\ InstanceFrame

\* Lines 522-531 and 761-763: is_valid_model(id); a context in the table was
\* built by WhisperContext::new (lines 305-310) and is valid.
IsValidModel(t, id) ==
    /\ answer' = [op |-> "is_valid", id |-> id, result |-> id \in contexts,
                  freed_before |-> id \in freed]
    /\ UNCHANGED << next_instance_id, next_id_lock, contexts, init_pc, instance_id,
                    issued, freed >>
    /\ InstanceFrame

InitInstanceCalls ==
    /\ usage = "direct"
    /\ config = CHOOSE c \in FlutterConfigs : NewAccepts(c)
    /\ InitTranscriber
    /\ InitNoTexts
    /\ InitStatsIdle
    /\ InitRealtimeCallsIdle
    /\ InitSlidingIdle
    /\ InitInstances
    /\ InitLoops
    /\ InitLocks

NextInstances ==
    \/ \E t \in Pollers : InitWhisperLoad(t)
    \/ \E t \in Pollers : InitWhisperFail(t)
    \/ \E t \in Pollers : InitWhisperTakeId(t)
    \/ \E t \in Pollers : InitWhisperInsert(t)
    \/ \E t \in Pollers, id \in InstanceIds : FreeWhisper(t, id)
    \/ \E t \in Pollers, id \in InstanceIds : IsValidModel(t, id)

SpecInstances == InitInstanceCalls /\ [][NextInstances]_vars

(***************************************************************************)
(* One RealTimeTranscriber over a sequence of start_processing and         *)
(* stop_processing calls (src/realtime_transcriber.rs lines 118-175 and    *)
(* 280-286), with the processing_loop threads (lines 195-258) it spawned   *)
(* and the producer that feeds its buffer.  Both calls take &mut self, so  *)
(* they run one after the other.                                           *)
(***************************************************************************)
\* What start_processing, stop_processing and the loops leave alone.
LoopsFrame ==
    /\ UNCHANGED << usage, config, attempts, texts, RegistryVars, CoreVars, cur_window,
                    shared, polls, fresh, quiet, rt_pc, current_time, rt_last_processed,
                    audio_window, iter_total, done_total >>
    /\ UNCHANGED << SharedFlutterVars, FlutterLocals >>
    /\ UNCHANGED << RealtimeCallVars, SlidingVars, InstanceVars, LockVars >>

\* The threads that are inside processing_loop.
RunningLoops == {l \in LoopIds : loop_at[l] # "unborn"}

\* Lines 128-174: an error while a handle is held; else a new thread is
\* spawned into processing_loop and its handle kept.
StartProcessingCall ==
    /\ IF processing_handle # 0
       THEN /\ start_reply' = "Processing already started"
            /\ UNCHANGED << processing_handle, loop_at >>
       ELSE /\ \E l \in LoopIds :
                  /\ loop_at[l] = "unborn"
                  /\ \A k \in LoopIds : k < l => loop_at[k] # "unborn"
                  /\ loop_at' = [loop_at EXCEPT ![l] = "read"]
                  /\ processing_handle' = l
            /\ start_reply' = "Ok"
    /\ UNCHANGED << loop_time, dispatched_by, last_processed_time >>
    /\ LoopsFrame

\* Lines 281-286: the handle is taken and dropped; a dropped JoinHandle
\* detaches its thread, which runs on.
StopProcessing ==
    /\ processing_handle' = 0
    /\ UNCHANGED << loop_at, loop_time, start_reply, dispatched_by, last_processed_time >>
    /\ LoopsFrame

\* Lines 196-207 and 257: thread l reads current_time and the watermark,
\* each under its lock, and goes for a window or sleeps.
ProcessingLoopRead(l) ==
    /\ loop_at[l] = "read"
    /\ loop_time' = [loop_time EXCEPT ![l] = BufferTime(Len(audio_buffer))]
    /\ loop_at' = [loop_at EXCEPT ![l] =
                      IF WindowDue(BufferTime(Len(audio_buffer)), last_processed_time)
                      THEN "window" ELSE "read"]
    /\ UNCHANGED << processing_handle, start_reply, dispatched_by, last_processed_time >>
    /\ LoopsFrame

\* Lines 208-257: thread l extracts the latest window (or continues when the
\* buffer is shorter than one), has it processed, writes the watermark and
\* sleeps.
ProcessingLoopWindow(l) ==
    /\ loop_at[l] = "window"
    /\ IF Len(audio_buffer) >= loop_window_samples
       THEN /\ last_processed_time' = NewLastProcessedTime(loop_time[l])
            /\ dispatched_by' = l
       ELSE UNCHANGED << last_processed_time, dispatched_by >>
    /\ loop_at' = [loop_at EXCEPT ![l] = "read"]
    /\ UNCHANGED << processing_handle, loop_time, start_reply >>
    /\ LoopsFrame

InitProcessing ==
    /\ usage = "realtime"
    /\ config \in RealtimeConfigs
    /\ InitCommon

NextProcessing ==
    \/ RtAddAudioChunk
    \/ StartProcessingCall
    \/ StopProcessing
    \/ \E l \in LoopIds : ProcessingLoopRead(l)
    \/ \E l \in LoopIds : ProcessingLoopWindow(l)

SpecProcessing == InitProcessing /\ [][NextProcessing]_vars

(***************************************************************************)
(* The mutexes of one FlutterTranscriber (src/flutter_transcriber.rs lines *)
(* 175-320, 459-477, 547-561) and the registry mutex of                    *)
(* FlutterTranscriberApi (src/flutter_api.rs lines 78-223), as three       *)
(* threads take and release them.  With usage "direct" the threads call    *)
(* the transcriber itself; with usage "api" every call goes through the    *)
(* registry.  What a call computes is left out; a branch that depends on   *)
(* the buffer is taken either way.                                         *)
(***************************************************************************)
\* The functions a thread calls.
DirectFunctions == {"add_audio_chunk", "process_if_ready", "get_stats", "get_buffer_status"}
ApiFunctions == DirectFunctions \cup {"create_transcriber", "destroy_transcriber"}

\* Where each function starts.
FirstStep(f) ==
    CASE f = "add_audio_chunk" -> "add_lock"
      [] f = "process_if_ready" -> "pir_flag"
      [] f = "get_stats" -> "get_stats"
      [] f = "get_buffer_status" -> "get_buffer_status"

\* Lines 308-309: the two mutexes of the watermark update, in the order they
\* are locked.
WatermarkFirst == "last_processed_samples"
WatermarkSecond == "audio_buffer"

\* Faulty variant of OverflowLock: the mutex locked under audio_buffer is
\* last_processed_samples.
OverflowLockInverted(t) == "last_processed_samples"

\* Line 193: the mutex add_audio_chunk locks while it holds audio_buffer.
OverflowLock(t) == "processing_stats"

\* The mutex the next step of thread t locks, "none" if it locks nothing.
Wants(t) ==
    CASE pc[t] = "registry" -> "registry"
      [] pc[t] \in {"pir_flag", "pir_mark", "pir_clear"} -> "is_processing"
      [] pc[t] \in {"pir_ready", "pir_len", "pcw_extract", "add_lock",
                     "get_buffer_status"} -> "audio_buffer"
      [] pc[t] = "pir_last" -> "last_processed_samples"
      [] pc[t] = "pcw_last" -> WatermarkFirst
      [] pc[t] = "pcw_buffer" -> WatermarkSecond
      [] pc[t] \in {"pcw_stats", "get_stats"} -> "processing_stats"
      [] pc[t] = "add_overflow" -> OverflowLock(t)
      [] OTHER -> "none"

HolderOf(l) == IF l = "registry" THEN registry ELSE holder[l]

\* lock() returns at once only on a mutex nobody holds.
CanTake(t) == HolderOf(Wants(t)) = "free"

\* What the steps below leave alone.
LocksFrame ==
    /\ UNCHANGED << usage, config, attempts, texts, RegistryVars, CoreVars, cur_window,
                    shared, polls, fresh, quiet, audio_buffer, last_processed_samples,
                    processing_stats, temp_files, total, last_processed, window_samples,
                    result, ret >>
    /\ UNCHANGED RealtimeVars
    /\ UNCHANGED << RealtimeCallVars, SlidingVars, InstanceVars, LoopsVars >>

\* Thread t goes on to step `next` of its call.
Go(t, next) ==
    /\ pc' = [pc EXCEPT ![t] = next]
    /\ UNCHANGED << registry, lock_call >>

\* The call of thread t returns; the registry guard, if t holds it, is dropped.
Finish(t) ==
    /\ pc' = [pc EXCEPT ![t] = "idle"]
    /\ lock_call' = [lock_call EXCEPT ![t] = "none"]
    /\ registry' = IF registry = t THEN "free" ELSE registry

\* Thread t calls a function: directly, or through FlutterTranscriberApi,
\* whose functions lock the registry first; create_transcriber runs
\* FlutterTranscriber::new before that (flutter_api.rs lines 82-95), which
\* may fail.
LockCall(t) ==
    /\ pc[t] = "idle"
    /\ lock_call[t] = "none"
    /\ \E f \in IF usage = "api" THEN ApiFunctions ELSE DirectFunctions :
          /\ lock_call' = [lock_call EXCEPT ![t] = f]
          /\ \/ pc' = [pc EXCEPT ![t] = IF usage = "api" THEN "registry" ELSE FirstStep(f)]
             \/ /\ f = "create_transcriber"
                /\ pc' = [pc EXCEPT ![t] = "failed"]
    /\ UNCHANGED << registry, is_processing, holder, api_exists >>
    /\ LocksFrame

\* The caller takes the result of a call that failed before any lock.
LockCallFailed(t) ==
    /\ pc[t] = "failed"
    /\ Finish(t)
    /\ UNCHANGED << is_processing, holder, api_exists >>
    /\ LocksFrame

\* TRANSCRIBER_INSTANCES.lock().unwrap() and what follows under the guard:
\* a panic on a poisoned mutex; the insert of create_transcriber (lines
\* 91-93); the remove and cleanup of destroy_transcriber (213-222); the
\* lookup of the other functions, which return an error when the id is not
\* there and else call the transcriber with the guard held.
LockRegistry(t) ==
    /\ pc[t] = "registry"
    /\ registry # "free" => registry = "poisoned"
    /\ IF registry = "poisoned"
       THEN /\ pc' = [pc EXCEPT ![t] = "panicked"]
            /\ UNCHANGED << registry, lock_call, api_exists >>
       ELSE IF lock_call[t] = "create_transcriber"
       THEN /\ api_exists' = TRUE
            /\ Finish(t)
       ELSE IF lock_call[t] = "destroy_transcriber"
       THEN /\ api_exists' = FALSE
            /\ Finish(t)
       ELSE IF ~api_exists
       THEN /\ Finish(t)
            /\ UNCHANGED api_exists
       ELSE /\ pc' = [pc EXCEPT ![t] = FirstStep(lock_call[t])]
            /\ registry' = t
            /\ UNCHANGED << lock_call, api_exists >>
    /\ UNCHANGED << is_processing, holder >>
    /\ LocksFrame

\* flutter_transcriber.rs lines 213-219: the flag is read under its mutex.
PirCheckFlag(t) ==
    /\ pc[t] = "pir_flag"
    /\ CanTake(t)
    /\ IF is_processing THEN Finish(t) ELSE Go(t, "pir_ready")
    /\ UNCHANGED << is_processing, holder, api_exists >>
    /\ LocksFrame

\* Lines 222-234: the buffer length is read under audio_buffer.
PirCheckBuffer(t) ==
    /\ pc[t] = "pir_ready"
    /\ CanTake(t)
    /\ Go(t, "pir_last") \/ Finish(t)
    /\ UNCHANGED << is_processing, holder, api_exists >>
    /\ LocksFrame

\* Line 238: the watermark is copied; the guard is a temporary and is gone
\* at the end of the statement.
PirReadLast(t) ==
    /\ pc[t] = "pir_last"
    /\ CanTake(t)
    /\ Go(t, "pir_len")
    /\ UNCHANGED << is_processing, holder, api_exists >>
    /\ LocksFrame

\* Lines 239-251: the length is read under audio_buffer and compared.
PirReadLen(t) ==
    /\ pc[t] = "pir_len"
    /\ CanTake(t)
    /\ Go(t, "pir_mark") \/ Finish(t)
    /\ UNCHANGED << is_processing, holder, api_exists >>
    /\ LocksFrame

\* Lines 254-257: the flag is set under its mutex.
PirMark(t) ==
    /\ pc[t] = "pir_mark"
    /\ CanTake(t)
    /\ is_processing' = TRUE
    /\ Go(t, "pcw_extract")
    /\ UNCHANGED << holder, api_exists >>
    /\ LocksFrame

\* Lines 276-287: the window is copied under audio_buffer, or Ok(None) is
\* returned to process_if_ready.
PcwExtract(t) ==
    /\ pc[t] = "pcw_extract"
    /\ CanTake(t)
    /\ Go(t, "pcw_backend") \/ Go(t, "pir_clear")
    /\ UNCHANGED << is_processing, holder, api_exists >>
    /\ LocksFrame

\* Lines 290-300: the WAV file and the backend, with no transcriber mutex
\* held: success, an Err through `?`, or a panic of write_wav_file, which
\* poisons the registry mutex when the thread holds it.
PcwBackend(t) ==
    /\ pc[t] = "pcw_backend"
    /\ \/ Go(t, "pcw_stats")
       \/ Go(t, "pir_clear")
       \/ /\ pc' = [pc EXCEPT ![t] = "panicked"]
          /\ registry' = IF registry = t THEN "poisoned" ELSE registry
          /\ UNCHANGED lock_call
    /\ UNCHANGED << is_processing, holder, api_exists >>
    /\ LocksFrame

\* Lines 304 and 548-560: update_stats under processing_stats.
PcwStats(t) ==
    /\ pc[t] = "pcw_stats"
    /\ CanTake(t)
    /\ Go(t, "pcw_last")
    /\ UNCHANGED << is_processing, holder, api_exists >>
    /\ LocksFrame

\* Line 308: the first mutex of the watermark update is locked and kept.
PcwLockLast(t) ==
    /\ pc[t] = "pcw_last"
    /\ CanTake(t)
    /\ holder' = [holder EXCEPT ![WatermarkFirst] = t]
    /\ Go(t, "pcw_buffer")
    /\ UNCHANGED << is_processing, api_exists >>
    /\ LocksFrame

\* Lines 309-311: the second mutex is locked under the first, the watermark
\* is written and both guards are dropped.
PcwLockBuffer(t) ==
    /\ pc[t] = "pcw_buffer"
    /\ CanTake(t)
    /\ holder' = [holder EXCEPT ![WatermarkFirst] = "free"]
    /\ Go(t, "pir_clear")
    /\ UNCHANGED << is_processing, api_exists >>
    /\ LocksFrame

\* Lines 263-268: the flag is cleared under its mutex and the call returns.
PirClear(t) ==
    /\ pc[t] = "pir_clear"
    /\ CanTake(t)
    /\ is_processing' = FALSE
    /\ Finish(t)
    /\ UNCHANGED << holder, api_exists >>
    /\ LocksFrame

\* Lines 176-190: audio_buffer is locked and kept; samples are pushed and
\* the oldest evicted, or not.
AddLock(t) ==
    /\ pc[t] = "add_lock"
    /\ CanTake(t)
    /\ holder' = [holder EXCEPT !["audio_buffer"] = t]
    /\ Go(t, "add_overflow") \/ Go(t, "add_return")
    /\ UNCHANGED << is_processing, api_exists >>
    /\ LocksFrame

\* Lines 192-195: after an eviction the overflow counter is bumped under its
\* mutex, with audio_buffer still held.
AddOverflow(t) ==
    /\ pc[t] = "add_overflow"
    /\ CanTake(t)
    /\ Go(t, "add_return")
    /\ UNCHANGED << is_processing, holder, api_exists >>
    /\ LocksFrame

\* Lines 197-208: the status is built and the buffer guard dropped.
AddReturn(t) ==
    /\ pc[t] = "add_return"
    /\ holder' = [holder EXCEPT !["audio_buffer"] = "free"]
    /\ Finish(t)
    /\ UNCHANGED << is_processing, api_exists >>
    /\ LocksFrame

\* Lines 459-461: get_stats under processing_stats.
LockedGetStats(t) ==
    /\ pc[t] = "get_stats"
    /\ CanTake(t)
    /\ Finish(t)
    /\ UNCHANGED << is_processing, holder, api_exists >>
    /\ LocksFrame

\* Lines 464-477: get_buffer_status under audio_buffer.
LockedGetBufferStatus(t) ==
    /\ pc[t] = "get_buffer_status"
    /\ CanTake(t)
    /\ Finish(t)
    /\ UNCHANGED << is_processing, holder, api_exists >>
    /\ LocksFrame

InitLockOrder ==
    /\ usage \in {"direct", "api"}
    /\ config = CHOOSE c \in FlutterConfigs : NewAccepts(c)
    /\ InitTranscriber
    /\ InitNoTexts
    /\ InitStatsIdle
    /\ InitRealtimeCallsIdle
    /\ InitSlidingIdle
    /\ InitInstances
    /\ InitLoops
    /\ holder = [l \in TranscriberLocks |-> "free"]
    /\ lock_call = [t \in Threads |-> "none"]
    /\ api_exists = (usage = "direct")

NextLockOrder ==
    \/ \E t \in Threads : LockCall(t)
    \/ \E t \in Threads : LockCallFailed(t)
    \/ \E t \in Threads : LockRegistry(t)
    \/ \E t \in Threads : PirCheckFlag(t)
    \/ \E t \in Threads : PirCheckBuffer(t)
    \/ \E t \in Threads : PirReadLast(t)
    \/ \E t \in Threads : PirReadLen(t)
    \/ \E t \in Threads : PirMark(t)
    \/ \E t \in Threads : PcwExtract(t)
    \/ \E t \in Threads : PcwBackend(t)
    \/ \E t \in Threads : PcwStats(t)
    \/ \E t \in Threads : PcwLockLast(t)
    \/ \E t \in Threads : PcwLockBuffer(t)
    \/ \E t \in Threads : PirClear(t)
    \/ \E t \in Threads : AddLock(t)
    \/ \E t \in Threads : AddOverflow(t)
    \/ \E t \in Threads : AddReturn(t)
    \/ \E t \in Threads : LockedGetStats(t)
    \/ \E t \in Threads : LockedGetBufferStatus(t)

SpecLockOrder == InitLockOrder /\ [][NextLockOrder]_vars

(***************************************************************************)
(* The scheduling of windows over an unending stream: a producer that      *)
(* keeps appending, one caller that polls process_if_ready again after     *)
(* every return (FlutterTranscriber), or the processing_loop thread        *)
(* (RealTimeTranscriber).  The samples all carry the value 0 here and the  *)
(* counters of the statistics, of the files and of the calls are not kept, *)
(* so that the stream can go on for ever; the buffer, the watermarks, the  *)
(* flag and the positions of the threads are as above.                     *)
(***************************************************************************)
\* add_audio_chunk of either transcriber (flutter_transcriber.rs lines
\* 176-190, realtime_transcriber.rs lines 95-110): n samples pushed, the
\* oldest popped while the buffer is over its capacity.
KeepAppending ==
    /\ \E n \in 1..MaxChunk :
          audio_buffer' = PopFrontWhileOver(audio_buffer \o [i \in 1..n |-> 0],
                                            IF usage = "realtime" THEN loop_max_samples
                                            ELSE max_samples)
    /\ fresh' = FALSE
    /\ quiet' = [t \in Pollers |-> FALSE]
    /\ UNCHANGED << usage, config, attempts, texts, RegistryVars, CallerVars,
                    last_processed_samples, is_processing, processing_stats, temp_files,
                    total, cur_window, shared, polls >>
    /\ UNCHANGED FlutterLocals
    /\ UNCHANGED RealtimeVars

\* process_if_ready lines 213-219, called again by the caller whose last
\* call returned.
PollAgain(t) ==
    /\ usage = "direct"
    /\ pc[t] = "idle"
    /\ IF is_processing
       THEN Return(t, "NoneBusy")
       ELSE /\ Goto(t, "check_data")
            /\ quiet' = [quiet EXCEPT ![t] = fresh]
            /\ UNCHANGED << last_processed, window_samples, result >>
    /\ UNCHANGED << usage, config, attempts, texts, RegistryVars, CallerVars, cur_window,
                    shared, polls, fresh >>
    /\ UNCHANGED SharedFlutterVars
    /\ UNCHANGED RealtimeVars

\* process_current_window lines 289-304: the WAV file is written and the
\* backend run.  File::create or the backend fails (Err through `?`), a
\* write panics, or the backend returns text or none, after which the file
\* is removed and the statistics updated.
RunBackend(t) ==
    /\ pc[t] = "write_wav"
    /\ \/ \E r \in {"ErrCreate", "ErrBackend"} :
             /\ result' = [result EXCEPT ![t] = r]
             /\ Goto(t, "clear")
       \/ \E output \in BackendOutputs :
             /\ result' = [result EXCEPT ![t] = ParseTranscriptionOutput(output)]
             /\ Goto(t, "update_last")
       \/ /\ Panic(t)
          /\ UNCHANGED result
    /\ UNCHANGED << usage, config, attempts, texts, RegistryVars, CallerVars, cur_window,
                    shared, polls, fresh, quiet, last_processed, window_samples >>
    /\ UNCHANGED SharedFlutterVars
    /\ UNCHANGED RealtimeVars

\* The steps of the polling caller.
CallerStep ==
    \/ PollAgain(Caller)
    \/ CheckData(Caller)
    \/ ReadLastProcessed(Caller)
    \/ CheckHop(Caller)
    \/ MarkProcessing(Caller)
    \/ ExtractWindow(Caller)
    \/ RunBackend(Caller)
    \/ UpdateLastProcessed(Caller)
    \/ ClearProcessing(Caller)

\* The steps of the processing_loop thread, from its spawn.
LoopStep ==
    \/ StartProcessing
    \/ LoopReadTime
    \/ LoopReadLast
    \/ LoopExtract
    \/ LoopProcess

InitLive ==
    /\ usage \in {"direct", "realtime"}
    /\ config \in IF usage = "realtime" THEN RealtimeConfigs ELSE FlutterConfigs
    /\ InitCommon

NextLive ==
    \/ KeepAppending
    \/ CallerStep
    \/ LoopStep

\* The producer thread, the polling caller and the loop thread each keep
\* running: a step of theirs that stays possible is taken.
SpecLive ==
    /\ InitLive
    /\ [][NextLive]_vars
    /\ WF_vars(KeepAppending)
    /\ WF_vars(CallerStep)
    /\ WF_vars(LoopStep)

(***************************************************************************)
(* Properties.                                                             *)
(***************************************************************************)

\* C1: for any interleaving of concurrent FlutterTranscriber.process_if_ready
\* calls on one transcriber, at most one call at a time is executing the
\* inference step (process_current_window and the external transcribe).
C1_AtMostOneInference ==
    Cardinality({t \in Pollers : InFlight(t)}) <= 1

\* The capacity as stated: sample_rate * max_buffer_duration, which for
\* FlutterTranscriber is sample_rate * 5 * window_duration_ms / 1000.
Capacity ==
    IF usage = "realtime"
    THEN (config.sample_rate * config.max_buffer_duration) \div TicksPerSecond
    ELSE (config.sample_rate * 5 * config.window_duration_ms) \div 1000

\* C2: after every add_audio_chunk call of either transcriber, whatever the
\* chunk sizes, the buffer holds at most Capacity samples.
C2_BufferWithinCapacity ==
    Len(audio_buffer) <= Capacity

\* C2, reached: a FlutterTranscriber buffer that has evicted samples (counted
\* as an overflow) and stands at its capacity.
C2_FullAfterEviction ==
    /\ usage = "direct"
    /\ processing_stats.buffer_overflows > 0
    /\ total > Capacity
    /\ Len(audio_buffer) = Capacity

\* C3: is_processing is cleared on every exit path of process_if_ready, so
\* no failure leaves it set: the flag is set only while a call that set it is
\* still executing.
C3_FlagSetOnlyDuringCall ==
    is_processing => \E t \in Pollers : pc[t] \in InferencePcs \cup {"clear"}

\* C3, for the calls that return: whenever a process_if_ready call that set
\* is_processing returns, with Ok or with Err, is_processing is false
\* afterwards, and the flag is set only while a call that set it has not
\* returned.
C3_FlagClearedOnReturn ==
    /\ [][\A t \in Pollers : (pc[t] = "clear" /\ pc'[t] = "idle") => ~is_processing']_vars
    /\ [](is_processing =>
            \E t \in Pollers : pc[t] \in InferencePcs \cup {"clear", "panicked"})

\* C3, reached: a call returned Err, every caller is idle and the flag is clear.
C3_ErrReturnedFlagClear ==
    /\ ret = "Err"
    /\ ~is_processing
    /\ \A t \in Pollers : pc[t] = "idle"

\* C4: a process_if_ready call made while an inference is in flight for the
\* same session does not wait for that inference, directly or through
\* FlutterTranscriberApi: no caller stands at the registry lock of
\* FlutterTranscriberApi::process_if_ready while another call's inference is
\* in flight.
C4_BusyPollNeverWaits ==
    \A t \in Pollers :
        pc[t] = "api_wait" => ~(\E u \in Pollers \ {t} : InFlight(u))

C6_NoDuplicateDispatch ==
    \A t \in Pollers : quiet[t] => ~BackendInvoked(t)

\* C7: with overlap_duration < window_duration, once processing_loop has
\* processed a window, an iteration that read current_time with no sample
\* appended since the processed iteration read it does not process a window.
C7_NoReprocessAtSameOccupancy ==
    (usage = "realtime" /\ config.overlap_duration < config.window_duration) =>
        ~(rt_pc = "process" /\ iter_total = done_total)

\* The buffer length at which the call of t extracted its window: the window
\* ends at the newest sample, and the buffer held every sample appended up to
\* it, to at most max_samples.
DispatchOccupancy(t) ==
    LET end == window_samples[t][Len(window_samples[t])] + 1
    IN  IF end > max_samples THEN max_samples ELSE end

\* C8 as stated: when a window is dispatched at buffer occupancy L the
\* watermark afterwards is L less the overlap (FlutterTranscriber:
\* L - sample_rate * overlap_duration_ms / 1000; RealTimeTranscriber:
\* current_time - overlap_duration).
C8_WatermarkIsOccupancyLessOverlap ==
    [][ /\ \A t \in Pollers :
             (pc[t] = "update_last" /\ pc'[t] = "clear") =>
                 last_processed_samples' = DispatchOccupancy(t) - overlap_samples
        /\ (rt_pc = "process" /\ rt_pc' = "read_time") =>
                 last_processed_time' = current_time - config.overlap_duration ]_vars

\* C8, amended: FlutterTranscriber sets the watermark to the buffer length at
\* the time of the update, no overlap taken off (so at least the occupancy at
\* dispatch), and only when the backend call returned; on a failed window the
\* watermark keeps its value.  RealTimeTranscriber sets it to
\* current_time - overlap_duration.
C8_WatermarkAfterDispatch ==
    [][ /\ \A t \in Pollers :
             (pc[t] = "update_last" /\ pc'[t] = "clear") =>
                 /\ last_processed_samples' = Len(audio_buffer')
                 /\ last_processed_samples' >= DispatchOccupancy(t)
        /\ last_processed_samples' # last_processed_samples =>
                 \E t \in Pollers : pc[t] = "update_last" /\ pc'[t] = "clear"
        /\ (rt_pc = "process" /\ rt_pc' = "read_time") =>
                 last_processed_time' = current_time - config.overlap_duration ]_vars

\* C8, reached: a FlutterTranscriber with a non-zero overlap whose call
\* returned text, the watermark standing at the full buffer length.
C8_WatermarkAtBufferLength ==
    /\ usage = "direct"
    /\ overlap_samples > 0
    /\ ret = "Some"
    /\ \A t \in Pollers : pc[t] = "idle"
    /\ last_processed_samples = Len(audio_buffer)
    /\ last_processed_samples >= window_size

\* The overlap in samples of the transcriber in use.
OverlapSamples ==
    IF usage = "realtime"
    THEN SamplesIn(config.sample_rate, config.overlap_duration)
    ELSE overlap_samples

\* C9: any two windows extracted one after the other share exactly the
\* overlap: the trailing OverlapSamples samples of the earlier are the
\* leading samples of the later, no more and no fewer.
C9_ConsecutiveWindowsShareOverlap ==
    shared = -1 \/ shared = OverlapSamples

\* The caller is past the extraction of its call's window.
PastExtract ==
    pc[Caller] \in {"write_wav", "transcribe", "update_stats", "update_last",
                    "clear", "idle", "panicked"}

\* C10: in the two-window scenario the first poll extracts a window of exactly
\* window_size samples, and the second poll, made after exactly hop_samples
\* more samples, extracts a window of exactly window_size samples that starts
\* hop_samples after the first window's start (the two windows of consecutive
\* stream samples share window_size - hop_samples >= 1 samples).
C10_SecondWindowOneHopLater ==
    /\ (polls >= 1 /\ PastExtract) => Len(cur_window) = window_size
    /\ (polls = 2 /\ PastExtract) =>
            /\ shared >= 1
            /\ window_size - shared = hop_samples

\* C10, reached: both polls returned text and the second window starts
\* hop_samples after the first.
C10_BothWindowsReturned ==
    /\ polls = 2
    /\ pc[Caller] = "idle"
    /\ ret = "Some"
    /\ processing_stats.successful_transcriptions = 2
    /\ window_size - shared = hop_samples

\* C11: the overflow counter of a FlutterTranscriber equals the number of
\* samples evicted so far, i.e. each add_audio_chunk call adds to it exactly
\* the number of samples that call evicted.
C11_OverflowCountsEvictedSamples ==
    usage # "realtime" =>
        processing_stats.buffer_overflows = total - Len(audio_buffer)

\* The samples numbered total-n .. total-1, oldest first.
MostRecent(n) ==
    [i \in 1..n |-> total - n + i - 1]

\* C12: after any sequence of add_audio_chunk calls, of either transcriber,
\* the buffer is exactly the most recent min(Capacity, total) samples of the
\* input in arrival order.
C12_BufferIsMostRecentSamples ==
    audio_buffer = MostRecent(IF total < Capacity THEN total ELSE Capacity)

\* C12, reached: a RealTimeTranscriber buffer that has evicted its oldest
\* samples and starts at the first sample still inside the capacity.
C12_OldestEvicted ==
    /\ usage = "realtime"
    /\ total > Capacity
    /\ Len(audio_buffer) = Capacity
    /\ audio_buffer[1] = total - Capacity

\* C13: every call of the backend by process_if_ready, whatever its outcome,
\* is counted once in total_processed_windows: the backend calls made so far
\* are the counted windows plus the calls standing just before update_stats.
C13_EveryAttemptCounted ==
    attempts = processing_stats.total_processed_windows
               + Cardinality({t \in Pollers : pc[t] = "update_stats"})

\* C15: FlutterTranscriberApi::add_audio_chunk never stands waiting for the
\* registry guard while the guard's holder has an inference in flight for
\* the same session.
C15_AppendNeverWaitsForInference ==
    ~(/\ pc[Producer] = "api_wait"
      /\ \E u \in Pollers : registry = u /\ InFlight(u))

\* C20: once process_if_ready has returned, with Ok or with Err, the WAV file
\* of its window is gone: every file that exists belongs to a call that has
\* not returned yet (or that panicked and never will).
C20_NoWavFileAfterReturn ==
    temp_files <= Cardinality({t \in Pollers :
                    pc[t] \in {"transcribe", "update_stats", "clear", "panicked"}})

\* C14: while one client's process_if_ready has an inference in flight for
\* session A, no call of add_audio_chunk, process_if_ready or
\* get_buffer_status on another registered session B stands waiting for it.
C14_OtherSessionNeverWaits ==
    \A t, u \in Clients :
        ~(/\ pc[t] = "api_infer"
          /\ pc[u] = "api_wait"
          /\ call[u].op \in {"add_audio_chunk", "process_if_ready", "get_buffer_status"}
          /\ call[u].id \in Keys(instances)
          /\ call[u].id # call[t].id)

\* C16: a create_transcriber call that returns for an id that is registered
\* returns an error and leaves the registry, hence the session of that id,
\* and the temp directories as they were.
C16_DuplicateCreateRejected ==
    [][\A t \in Clients :
          (/\ pc[t] = "api_insert"
           /\ pc'[t] = "idle"
           /\ call[t].id \in Keys(instances))
          => (/\ reply'.status = "Err"
              /\ instances' = instances
              /\ dirs' = dirs)]_vars

C18_FailedCreateRegistersNothing ==
    [][(/\ calls' # calls
        /\ pc' = pc
        /\ reply'.op = "create_transcriber"
        /\ reply'.status = "Err")
       => (instances' = instances /\ Keys(instances') = Keys(instances))]_vars

\* C18, reached: create_transcriber has failed at the temp directory, the
\* last step of new, for an id that is not registered, with another session
\* registered.
C18_CreateFailedLate ==
    /\ reply.op = "create_transcriber"
    /\ reply.status = "Err"
    /\ reply.error = "ProcessingError"
    /\ reply.id \notin Keys(instances)
    /\ Keys(instances) # {}

\* C19: every live transcriber has overlap < window, hence a positive hop;
\* for the RealTimeTranscribers constructed by create_realtime_transcriber.
C19_LiveTranscribersHavePositiveHop ==
    \A c \in realtime_live : c.overlap_duration < c.window_duration

\* C19, for the sessions FlutterTranscriber::new constructed.
C19_RegisteredSessionsHavePositiveHop ==
    \A id \in Keys(instances) :
        instances[id].config.overlap_duration_ms < instances[id].config.window_duration_ms

\* C21: after a failure inside process_if_ready the transcriber is not left
\* answering None forever: a poll is turned away as busy only while another
\* call is between setting the flag and clearing it.
C21_BusyAnswerOnlyWhileACallRuns ==
    [][\A t \in Pollers :
          (/\ polls' = polls + 1
           /\ pc'[t] = "idle"
           /\ is_processing)
          => \E u \in Pollers \ {t} : pc[u] \in InferencePcs \cup {"clear"}]_vars

\* C21, for the failures that are returned: a call that has come back from
\* the backend with an error clears the flag on its way out.
C21_ErrReturnClearsFlag ==
    [][\A t \in Pollers :
          (pc[t] = "clear" /\ result[t] \in {"ErrCreate", "ErrBackend"} /\ pc'[t] = "idle")
          => ~is_processing']_vars

\* C27: results are returned in the order of their windows' start positions:
\* when a call returns the text of its window, no other call already holds
\* the text of a window that starts earlier and has yet to return it.
C27_ResultsInWindowOrder ==
    [][\A t \in Pollers :
          (pc[t] = "clear" /\ result[t] = "Some" /\ pc'[t] = "idle")
          => \A u \in Pollers \ {t} :
                (pc[u] \in {"update_stats", "update_last", "clear"} /\ result[u] = "Some")
                => window_samples[u][1] >= window_samples[t][1]]_vars

\* C28: last_processed_samples never decreases, and it changes only in the
\* watermark update of a process_if_ready call that dispatched its window;
\* add_audio_chunk and the polls turned away leave it as it is.
C28_WatermarkMonotone ==
    [][/\ last_processed_samples' >= last_processed_samples
       /\ last_processed_samples' # last_processed_samples
             => \E t \in Pollers :
                   pc[t] = "update_last" /\ pc'[t] = "clear" /\ BackendInvoked(t)]_vars

\* C28, reached: a second dispatch has moved the watermark past the first
\* window, on a buffer that has been appended to in between.
C28_WatermarkAdvancedTwice ==
    /\ usage # "realtime"
    /\ processing_stats.total_processed_windows >= 2
    /\ last_processed_samples > window_size
    /\ total > last_processed_samples

\* C30: successful_transcriptions counts exactly the attempts whose backend
\* output held a non-empty transcription (those still standing before
\* update_stats not yet counted), and never exceeds total_processed_windows.
C30_SuccessesAreTheAttemptsWithText ==
    /\ processing_stats.successful_transcriptions
         + Cardinality({t \in Pollers : pc[t] = "update_stats" /\ result[t] = "Some"})
       = texts
    /\ processing_stats.successful_transcriptions
         <= processing_stats.total_processed_windows

\* C30, reached: of the attempts recorded, one had a transcription and one
\* had none.
C30_OneOfTwoSucceeded ==
    /\ processing_stats.total_processed_windows = 2
    /\ processing_stats.successful_transcriptions = 1
    /\ texts = 1
    /\ \A t \in Pollers : pc[t] = "idle"

\* C26: a step of a call on one session leaves every other registered session
\* registered, with its buffer, watermark and counters as they were and its
\* temp directory still on disk.
C26_OtherSessionsUntouched ==
    [][\A i \in DOMAIN instances :
          (~\E t \in Clients :
                /\ pc'[t] # pc[t] \/ call'[t] # call[t]
                /\ call[t].id = i)
          => /\ i \in DOMAIN instances'
             /\ instances'[i] = instances[i]
             /\ instances[i].temp_dir \in dirs => instances[i].temp_dir \in dirs']_vars

\* C22: when the clean forms a and b of the two texts differ, the score is
\* s = 1 - levenshtein(a, b) / max(len a, len b) with lengths in characters,
\* and s > 0.8 gives FuzzyMatch with is_match, 0.6 < s <= 0.8 gives
\* PhoneticMatch without is_match, s <= 0.6 gives NoMatch without is_match;
\* with one clean form empty s is 0.
C22_ThresholdsOfSimilarity ==
    LET a == clean_arabic_text(validation.transcribed_word)
        b == clean_arabic_text(validation.expected_word)
        longest == Max(Len(a), Len(b))
        s == Fraction(longest - levenshtein_distance(a, b), longest)
        score == validation.similarity_score
    IN  (validation # NoValidation /\ a # b)
        => /\ score.num * s.den = s.num * score.den
           /\ (Len(a) = 0 \/ Len(b) = 0) => score.num = 0
           /\ 10 * s.num > 8 * s.den
                 => validation.validation_type = "FuzzyMatch" /\ validation.is_match
           /\ (10 * s.num > 6 * s.den /\ 10 * s.num <= 8 * s.den)
                 => validation.validation_type = "PhoneticMatch" /\ ~validation.is_match
           /\ 10 * s.num <= 6 * s.den
                 => validation.validation_type = "NoMatch" /\ ~validation.is_match

\* C22, reached: a pair at similarity exactly 0.8 was validated as a
\* PhoneticMatch that is no match.
C22_PhoneticAtFourFifths ==
    /\ validation.validation_type = "PhoneticMatch"
    /\ ~validation.is_match
    /\ validation.similarity_score = Fraction(4, 5)

\* C23: the suggestion is the expected text exactly when is_match is false,
\* and there is no suggestion exactly when is_match is true.
C23_SuggestionIffNoMatch ==
    validation # NoValidation
    => /\ validation.suggestion.some <=> ~validation.is_match
       /\ validation.suggestion.some
             => validation.suggestion.text = validation.expected_word

\* C24: a text validated against itself gives ExactMatch, is_match,
\* similarity 1.0 and no suggestion, also when its clean form is empty.
C24_SameTextIsExactMatch ==
    (validation # NoValidation /\ validation.transcribed_word = validation.expected_word)
    => /\ validation.validation_type = "ExactMatch"
       /\ validation.is_match
       /\ validation.similarity_score = Fraction(1, 1)
       /\ validation.suggestion = None

\* C24, reached: a text of marks and white space only, empty once cleaned,
\* was validated against itself.
C24_EmptyCleanFormValidated ==
    /\ validation.validation_type = "ExactMatch"
    /\ validation.transcribed_word = validation.expected_word
    /\ Len(validation.transcribed_word) >= 1
    /\ clean_arabic_text(validation.transcribed_word) = << >>

C29_SnapshotIsACommittedState ==
    LET n == snapshot.total_processed_windows
    IN  /\ n + 1 <= Len(committed)
        /\ snapshot.successful_transcriptions = committed[n + 1].successful_transcriptions
        /\ snapshot.average_processing_time_ms = committed[n + 1].average_processing_time_ms
        /\ snapshot.real_time_factor = committed[n + 1].real_time_factor

\* C29, reached: get_stats was called while an update_stats held the guard,
\* and returned the stats of two recorded attempts while a third update is
\* half-way through.
C29_ServedAfterWaiting ==
    /\ reader = "served"
    /\ snapshot.total_processed_windows = 2
    /\ snapshot.successful_transcriptions = 1
    /\ \E t \in Pollers : pc[t] = "average"

\* C31: once an update_stats has completed, real_time_factor is the window
\* duration divided by average_processing_time_ms, the running average of
\* the latencies recorded so far.
C31_FactorIsWindowOverAverage ==
    (stats_lock = "free" /\ processing_stats.total_processed_windows >= 1)
    => LET factor == processing_stats.real_time_factor
           average == processing_stats.average_processing_time_ms
       IN  factor.num * average.num = config.window_duration_ms * average.den * factor.den

\* C32: no transcriber is constructed with sample rate 0 or with a maximum
\* buffer duration that is not positive.
C32_LiveTranscribersHavePositiveRate ==
    \A c \in realtime_live : c.sample_rate > 0 /\ c.max_buffer_duration > 0

\* C33: get_buffer_duration returns the number of buffered samples divided
\* by the sample rate, which for a transcriber that had N samples appended
\* is min(N, capacity) / sample_rate seconds.
C33_DurationIsBufferedOverRate ==
    asked_total >= 0
    => buffer_duration.num * config.sample_rate
          = Min(asked_total, loop_max_samples) * buffer_duration.den

\* C33, reached: get_buffer_duration returned the capacity's duration after
\* more samples than the capacity had been appended.
C33_DurationOfFullBuffer ==
    /\ usage = "realtime"
    /\ asked_total > loop_max_samples
    /\ Len(audio_buffer) = loop_max_samples
    /\ buffer_duration.num * config.sample_rate = loop_max_samples * buffer_duration.den

\* All of text from position i to position j is white space.
C34_Blank(text, i, j) == \A k \in i..j : text[k] \in Whitespace

\* The two texts are one text between white space.
C34_EqualButPadding(t, e) ==
    \E i \in 1..(Len(t) + 1), k \in 1..(Len(e) + 1) :
       \E j \in (i - 1)..Len(t), l \in (k - 1)..Len(e) :
          /\ SubSeq(t, i, j) = SubSeq(e, k, l)
          /\ C34_Blank(t, 1, i - 1) /\ C34_Blank(t, j + 1, Len(t))
          /\ C34_Blank(e, 1, k - 1) /\ C34_Blank(e, l + 1, Len(e))

\* C34: validate_text answers is_match with confidence 1.0 and no suggestion
\* exactly when the texts are equal but for surrounding white space, and
\* otherwise no match, confidence 0.0 and the expected text as suggestion.
C34_MatchIffEqualAfterTrim ==
    text_validation # NoTextValidation
    => LET v == text_validation
       IN  /\ v.is_match <=> C34_EqualButPadding(v.original_word, v.expected_word)
           /\ v.is_match => v.confidence = 1 /\ v.suggestion = None
           /\ ~v.is_match => v.confidence = 0 /\ v.suggestion = Some(v.expected_word)

\* C34, reached: two texts that differ, but only in surrounding white space,
\* were validated as a match.
C34_PaddedTextsMatched ==
    /\ text_validation.is_match
    /\ text_validation.original_word # text_validation.expected_word
    /\ \E i \in 1..Len(text_validation.original_word) :
          text_validation.original_word[i] \notin Whitespace

\* C36: the extra final window is submitted only when the stepped windows
\* left samples at the end uncovered, and it is a range that was not
\* submitted before.
C36_FinalWindowOnlyForUncoveredTail ==
    [][(sw_pc = "tail" /\ Len(submitted') > Len(submitted))
          => /\ submitted[Len(submitted)][2] < sliding_call.audio_len
             /\ \A i \in 1..Len(submitted) : submitted[i] # submitted'[Len(submitted')]]_vars

\* C37: on every iteration of the loop that goes on to another, the window
\* position grows.
C37_PositionGrowsEveryIteration ==
    [][(sw_pc = "loop" /\ sw_pc' = "loop") => position' > position]_vars

\* C40: the ids init_whisper returned are pairwise distinct, an id that was
\* freed is in the table no more, and a free_whisper or is_valid_model call
\* on an id freed before answers false.
C40_IdsDistinctAndNeverReused ==
    /\ \A i, j \in 1..Len(issued) : i # j => issued[i] # issued[j]
    /\ freed \cap contexts = {}
    /\ answer.freed_before => ~answer.result

\* Three ids were issued, the first of them was freed, and a second
\* free_whisper of it failed while another instance was live.
C40_SecondFreeAfterLaterInits ==
    /\ Len(issued) >= 3
    /\ issued[1] \in freed
    /\ contexts # {}
    /\ answer = [op |-> "free", id |-> issued[1], result |-> FALSE, freed_before |-> TRUE]

\* C39: at most one processing_loop thread of the transcriber is running.
C39_AtMostOneProcessingLoop == Cardinality(RunningLoops) <= 1

\* C38: no set of threads is deadlocked, each of them waiting for a mutex
\* that a thread of the set holds.
C38_NoDeadlock ==
    \A T \in SUBSET Threads :
        T # {} => \E t \in T : Wants(t) = "none" \/ HolderOf(Wants(t)) \notin T

\* Both nested lockings are under way at once: a poller holds
\* last_processed_samples and waits for audio_buffer, which the producer
\* holds while it is about to lock processing_stats; the third thread
\* waits for audio_buffer as well.
C38_NestedLocksMeet ==
    /\ pc["p1"] = "pcw_buffer" /\ holder["last_processed_samples"] = "p1"
    /\ pc[Producer] = "add_overflow" /\ holder["audio_buffer"] = Producer
    /\ pc["p2"] = "get_buffer_status"

\* A window is being dispatched: the caller's call holds a window for the
\* backend, or the loop is at its process_audio call.
C35_Dispatching == pc[Caller] = "write_wav" \/ rt_pc = "process"

\* C35: with the producer appending and the polls going on for ever, windows
\* are dispatched again and again, unless the polling thread panicked.
C35_WindowsKeepBeingDispatched ==
    []<>C35_Dispatching \/ <>(pc[Caller] = "panicked")

====
